---------------------------- MODULE Spec2Model ----------------------------
(***************************************************************************)
(* State-machine model of x265's transform/quantisation core,              *)
(* source/common/quant.cpp (class Quant).                                  *)
(*                                                                         *)
(* Arrays are functions on 0..n-1.  C integers are modelled by integers;   *)
(* x >> k on an int is floor division by 2^k, and the branch-free sign     *)
(* idioms ((x ^ s) - s with s = x >> 31) are written as what they compute. *)
(* The numeric kernels reached through `primitives' and the scan tables    *)
(* are not part of quant.cpp; they are modelled from their contract.      *)
(***************************************************************************)
EXTENDS Integers, Sequences, FiniteSets, TLC

VARIABLES
    pc,             \* "new" | "ready" | "failed" | "encoded" | "decoded"
    alloc,          \* which scratch buffers init obtained, and init's result
    cfg,            \* m_useRDOQ, m_psyRdoqScale, m_scalingList
    m_qpParam,      \* per text type: [per, rem]
    m_nr,           \* noise-reduction state: bNoiseReduction, count, residualSum, offset
    m_resiDctCoeff, \* scratch: DCT of the residual
    m_fencDctCoeff, \* scratch: DCT of the source block (psy-rdoq)
    call,           \* arguments of the transformNxN / invtransformNxN call in progress
    coeff,          \* the caller's coefficient block
    numSigOut,      \* value returned by transformNxN
    residual,       \* the caller's residual buffer
    ghost           \* history of the last call, for stating properties

vars == <<pc, alloc, cfg, m_qpParam, m_nr, m_resiDctCoeff, m_fencDctCoeff,
          call, coeff, numSigOut, residual, ghost>>

---------------------------------------------------------------------------
(* Program constants *)

MAX_INT == 2147483647
SCAN_SET_SIZE == 16
LOG2_SCAN_SET_SIZE == 4
MLS_CG_SIZE == 4          \* cgSize = 1 << MLS_CG_SIZE = 16 (line 545)
SCALE_BITS == 15
SBH_THRESHOLD == 4
QUANT_SHIFT == 14
QUANT_IQUANT_SHIFT == 20
MAX_TR_DYNAMIC_RANGE == 15
X265_DEPTH == 10
TEXT_LUMA == 0
TEXT_CHROMA_U == 1
TEXT_CHROMA_V == 2

---------------------------------------------------------------------------
(* Integer helpers *)

Abs(x) == IF x < 0 THEN -x ELSE x
Shl(x, k) == x * 2^k
Shr(x, k) == x \div 2^k
Clip3(lo, hi, x) == IF x < lo THEN lo ELSE IF x > hi THEN hi ELSE x
CountNonzero(c) == Cardinality({i \in DOMAIN c : c[i] # 0})
ZeroBlock(n) == [i \in 0..(n - 1) |-> 0]

\* a function computed once, not at each of its applications
Tabulated(f) == IF f = f THEN f ELSE f

\* 32-bit words, for the branch-free idioms whose result depends on the width.
\* A word is the set of its set bits; Bits(x) is the two's complement pattern
\* of the integer x, which is also the pattern of x modulo 2^32 as a uint32_t.
Bits(x) == {i \in 0..30 : (x \div 2^i) % 2 = 1} \cup (IF x < 0 THEN {31} ELSE {})

RECURSIVE Unsigned(_)
Unsigned(w) ==
    IF w = {} THEN 0 ELSE LET i == CHOOSE b \in w : TRUE IN 2^i + Unsigned(w \ {i})

\* the value of a word read as int32_t
Int32(w) == IF 31 \in w THEN -1 - Unsigned((0..30) \ w) ELSE Unsigned(w)

\* w >> k on a uint32_t and on an int32_t, w << k on a uint32_t
Lsr(w, k) == {i - k : i \in {j \in w : j >= k}}
Asr(w, k) == Lsr(w, k) \cup (IF 31 \in w THEN (32 - k)..31 ELSE {})
Lsl(w, k) == {i + k : i \in {j \in w : j + k <= 31}}

\* (uint32_t)x >> 31 and (int32_t)x >> 31 as integers, through the upper
\* half-word of the pattern of x
Hi16(x) == (x \div 65536) % 65536
Shr31(x) == Hi16(x) \div 32768
Sar31(x) == (x \div 65536) \div 32768

---------------------------------------------------------------------------
(* Scan tables (TComDataCU::getTUEntropyCodingParameters, g_scanOrder).    *)
(* Up-right diagonal scan: anti-diagonals in turn, each from its           *)
(* bottom-left end; a block larger than 4x4 is scanned group by group,     *)
(* the 4x4 groups themselves in diagonal order.                            *)

DiagRank(w, x, y) ==
    Cardinality({q \in (0..(w - 1)) \X (0..(w - 1)) :
                    \/ q[1] + q[2] < x + y
                    \/ q[1] + q[2] = x + y /\ q[1] < x})

DiagScan(w) ==
    [k \in 0..(w * w - 1) |->
        CHOOSE b \in 0..(w * w - 1) : DiagRank(w, b % w, b \div w) = k]

Diag1 == Tabulated(DiagScan(1))
Diag2 == Tabulated(DiagScan(2))
Diag4 == Tabulated(DiagScan(4))
Diag8 == Tabulated(DiagScan(8))

ScanCGOf(log2TrSizeCG) ==
    CASE log2TrSizeCG = 0 -> Diag1
      [] log2TrSizeCG = 1 -> Diag2
      [] log2TrSizeCG = 2 -> Diag4
      [] log2TrSizeCG = 3 -> Diag8

ScanOf(log2TrSize) ==
    LET w    == 2^log2TrSize
        wcg  == w \div 4
        sCG  == ScanCGOf(log2TrSize - 2)
    IN [p \in 0..(w * w - 1) |->
           LET cg == sCG[p \div SCAN_SET_SIZE]
               d  == Diag4[p % SCAN_SET_SIZE]
               x  == 4 * (cg % wcg) + (d % 4)
               y  == 4 * (cg \div wcg) + (d \div 4)
           IN y * w + x]

Scan4  == Tabulated(ScanOf(2))
Scan8  == Tabulated(ScanOf(3))
Scan16 == Tabulated(ScanOf(4))
Scan32 == Tabulated(ScanOf(5))

SCAN_DIAG == 0
SCAN_VER == 2

\* TUEntropyCodingParameters for a diagonally scanned block
CodingParameters(log2TrSize, bIsLuma) ==
    [scan         |-> CASE log2TrSize = 2 -> Scan4
                        [] log2TrSize = 3 -> Scan8
                        [] log2TrSize = 4 -> Scan16
                        [] log2TrSize = 5 -> Scan32,
     scanCG       |-> ScanCGOf(log2TrSize - 2),
     scanType     |-> SCAN_DIAG,
     log2TrSizeCG |-> log2TrSize - 2,
     firstSignificanceMapContext |->
         IF log2TrSize = 2 THEN 0
         ELSE IF log2TrSize = 3 THEN 9
         ELSE IF bIsLuma THEN 21 ELSE 12]

---------------------------------------------------------------------------
(* primitives.quant: level = (|coef| * quantCoeff + add) >> qBits, the     *)
(* 8-bit fixed point remainder in deltaU, the level saturated to 16 bits   *)
(* and given the sign of coef; returns the number of nonzero levels.       *)

QuantLevel(c, q, qBits, add) == Shr(Abs(c) * q + add, qBits)

QuantDeltaU(c, q, qBits, add) ==
    Shr(Abs(c) * q - Shl(QuantLevel(c, q, qBits, add), qBits), qBits - 8)

QuantSigned(c, q, qBits, add) ==
    Clip3(-32768, 32767,
          (IF c < 0 THEN -1 ELSE 1) * QuantLevel(c, q, qBits, add))

PrimQuant(coef, quantCoeff, qBits, add) ==
    LET qc == [i \in DOMAIN coef |-> QuantSigned(coef[i], quantCoeff[i], qBits, add)]
    IN [qCoef  |-> qc,
        deltaU |-> [i \in DOMAIN coef |-> QuantDeltaU(coef[i], quantCoeff[i], qBits, add)],
        numSig |-> CountNonzero(qc)]

---------------------------------------------------------------------------
(* Helpers shared by the two sign-hiding passes: positions of the last     *)
(* and first nonzero of coefficient group subPos..subPos+15 in scan order. *)

LastNZPosInCG(c, scan, subPos) ==
    LET nz == {n \in 0..(SCAN_SET_SIZE - 1) : c[scan[n + subPos]] # 0}
    IN IF nz = {} THEN -1 ELSE CHOOSE n \in nz : \A m \in nz : m <= n

FirstNZPosInCG(c, scan, subPos) ==
    LET nz == {n \in 0..(SCAN_SET_SIZE - 1) : c[scan[n + subPos]] # 0}
    IN CHOOSE n \in nz : \A m \in nz : n <= m

RECURSIVE SumRange(_, _, _, _, _)
SumRange(c, scan, subPos, from, to) ==
    IF from > to THEN 0
    ELSE c[scan[from + subPos]] + SumRange(c, scan, subPos, from + 1, to)

\* lines 305-306 and 976-977: a saturated coefficient is only ever decremented
SbhNoClamp(level, finalChange) == finalChange
SbhClamp(level, finalChange) ==
    IF level = 32767 \/ level = -32768 THEN -1 ELSE finalChange

\* lines 308-311 and 979-982: the nonzero count follows the transition
SbhNumSigStale(numSig, level, finalChange) ==
    IF level = 0 THEN numSig + 1 ELSE numSig
SbhNumSig(numSig, level, finalChange) ==
    IF level = 0 THEN numSig + 1
    ELSE IF finalChange = -1 /\ Abs(level) = 1 THEN numSig - 1
    ELSE numSig

\* lines 252 and 923: the group needs a change when the parity of its sum differs
\* from the sign bit of its first nonzero coefficient
SbhParityAlways(signbit, absSum) == TRUE
SbhParityMismatch(signbit, absSum) == signbit # (absSum % 2)

\* lines 268 and 949: the first nonzero of the group may not be lowered from 1 to 0
SbhFirstNZNotKept(n, firstNZPosInCG, level) == FALSE
SbhOnesKept(n, firstNZPosInCG, level) == Abs(level) = 1
SbhFirstNZKept(n, firstNZPosInCG, level) == n = firstNZPosInCG /\ Abs(level) = 1

\* lines 256 and 929: where the candidate loop starts
SbhSearchWholeCG(lastCG, lastNZPosInCG) == SCAN_SET_SIZE - 1
SbhSearchFrom(lastCG, lastNZPosInCG) ==
    IF lastCG = 1 THEN lastNZPosInCG ELSE SCAN_SET_SIZE - 1

\* what a sign-hiding pass did in one coefficient group: the flag and the start
\* of the candidate loop, the position chosen and the change applied to it, the
\* cost of the chosen candidate and that of the group's last nonzero coefficient
SbhLogEntry(subSet, lastCG, from, firstNZPosInCG, lastNZPosInCG, signbit, st, change) ==
    [subSet |-> subSet, lastCG |-> lastCG, from |-> from, first |-> firstNZPosInCG,
     last |-> lastNZPosInCG, signbit |-> signbit, minPos |-> st.minPos,
     change |-> change, kept |-> st.kept, minCostInc |-> st.minCostInc,
     lastCost |-> st.lastCost]

\* lines 313-316 and 984-987: the change is applied with the sign of the DCT coefficient
SbhApplyUnsigned(level, dct, finalChange) == level + finalChange
SbhApply(level, dct, finalChange) ==
    IF dct >= 0 THEN level + finalChange ELSE level - finalChange

---------------------------------------------------------------------------
(* Quant::signBitHidingHDQ, lines 219-324 *)

\* one iteration of the candidate loop, lines 256-303
HdqCandidate(e, st) ==
    LET n      == st.n
        blkPos == e.scan[n + e.subPos]
        q      == e.qCoef[blkPos]
        dU     == e.deltaU[blkPos]
        up     == [cost |-> -dU, change |-> 1, kept |-> FALSE]
        none   == [cost |-> MAX_INT, change |-> st.curChange, kept |-> FALSE]
        cur    == IF q # 0
                  THEN IF dU > 0 THEN up
                       ELSE IF SbhFirstNZKept(n, e.firstNZPosInCG, q)
                            THEN [none EXCEPT !.kept = TRUE]
                            ELSE [cost |-> dU, change |-> -1, kept |-> FALSE]
                  ELSE IF n < e.firstNZPosInCG
                       THEN IF (IF e.coef[blkPos] >= 0 THEN 0 ELSE 1) # e.signbit
                            THEN none ELSE up
                       ELSE up
        lastCost == IF n = e.lastNZPosInCG THEN cur.cost ELSE st.lastCost
    IN IF cur.cost < st.minCostInc
       THEN [minCostInc |-> cur.cost, minPos |-> blkPos,
             finalChange |-> cur.change, curChange |-> cur.change, n |-> n - 1,
             kept |-> st.kept \/ cur.kept, lastCost |-> lastCost]
       ELSE [st EXCEPT !.curChange = cur.change, !.n = n - 1, !.kept = @ \/ cur.kept,
                       !.lastCost = lastCost]

\* the candidate loop, lines 254-303; st.n is the loop variable
RECURSIVE HdqSearch(_, _)
HdqSearch(e, st) ==
    IF st.n < 0 THEN st ELSE HdqSearch(e, HdqCandidate(e, st))

\* lines 227-320 for one coefficient group; s = [qCoef, numSig, lastCG, oob, subSet]
\* and the log of the groups changed so far
HdqSubSet(s, coef, deltaU, scan) ==
    LET subSet == s.subSet
        subPos == Shl(subSet, LOG2_SCAN_SET_SIZE)
        lastNZPosInCG == LastNZPosInCG(s.qCoef, scan, subPos)
    IN IF lastNZPosInCG < 0 THEN s
       ELSE
       LET firstNZPosInCG == FirstNZPosInCG(s.qCoef, scan, subPos)
           signbit == IF s.qCoef[scan[subPos + firstNZPosInCG]] > 0 THEN 0 ELSE 1
           absSum  == SumRange(s.qCoef, scan, subPos, firstNZPosInCG, lastNZPosInCG)
       IN IF lastNZPosInCG - firstNZPosInCG >= SBH_THRESHOLD
             /\ SbhParityMismatch(signbit, absSum)
          THEN
          LET e  == [qCoef |-> s.qCoef, coef |-> coef, deltaU |-> deltaU, scan |-> scan,
                     subPos |-> subPos, firstNZPosInCG |-> firstNZPosInCG,
                     lastNZPosInCG |-> lastNZPosInCG, signbit |-> signbit]
              from == SbhSearchFrom(s.lastCG, lastNZPosInCG)
              st == HdqSearch(e, [minCostInc |-> MAX_INT, minPos |-> -1,
                                  finalChange |-> 0, curChange |-> 0, n |-> from,
                                  kept |-> FALSE, lastCost |-> MAX_INT])
          IN IF st.minPos = -1
             THEN [s EXCEPT !.oob = TRUE, !.lastCG = 0]
             ELSE
             LET level == s.qCoef[st.minPos]
                 finalChange == SbhClamp(level, st.finalChange)
             IN [qCoef  |-> [s.qCoef EXCEPT ![st.minPos] =
                                SbhApply(level, coef[st.minPos], finalChange)],
                 numSig |-> SbhNumSig(s.numSig, level, finalChange),
                 lastCG |-> 0,
                 oob    |-> s.oob,
                 subSet |-> subSet,
                 log    |-> Append(s.log,
                                   SbhLogEntry(subSet, s.lastCG, from, firstNZPosInCG,
                                               lastNZPosInCG, signbit, st,
                                               finalChange))]
          ELSE [s EXCEPT !.lastCG = 0]

\* the loop over coefficient groups, lines 225-321; s.subSet is the loop variable
RECURSIVE HdqLoop(_, _, _, _)
HdqLoop(s, coef, deltaU, scan) ==
    IF s.subSet < 0 THEN s
    ELSE HdqLoop([HdqSubSet(s, coef, deltaU, scan) EXCEPT !.subSet = @ - 1],
                 coef, deltaU, scan)

signBitHidingHDQ(qCoef, coef, deltaU, numSig0, codingParameters) ==
    HdqLoop([qCoef |-> qCoef, numSig |-> numSig0, lastCG |-> 1, oob |-> FALSE,
             subSet |-> 2^(codingParameters.log2TrSizeCG * 2) - 1, log |-> <<>>],
            coef, deltaU, codingParameters.scan)

---------------------------------------------------------------------------
(* QpParam::setQpParam and the tables of ScalingList, as quant.cpp uses    *)
(* them.  A scaling list is a record                                       *)
(*   [m_bEnabled, quantCoef, dequantCoef, errNum, errShift]                *)
(* whose m_quantCoef / m_dequantCoef tables hold quantCoef[rem] /          *)
(* dequantCoef[rem] at every position and whose m_errScale tables hold the *)
(* double errNum / 4^errShift at every position.                           *)

SetQpParam(qpScaled) == [per |-> qpScaled \div 6, rem |-> qpScaled % 6]

QP_BD_OFFSET == 6 * (X265_DEPTH - 8)

s_invQuantScales == <<40, 45, 51, 57, 64, 72>>

QuantCoefTable(sl, sizeIdx, scalingListType, rem, n) ==
    [i \in 0..(n - 1) |-> sl.quantCoef[rem]]

DequantCoefTable(sl, sizeIdx, scalingListType, rem, n) ==
    [i \in 0..(n - 1) |-> sl.dequantCoef[rem]]

---------------------------------------------------------------------------
(* denoiseDct, lines 52-63 *)

DenoiseLevel(c, off) ==
    LET level == Abs(c) - off
    IN IF level < 0 THEN 0 ELSE IF c < 0 THEN -level ELSE level

denoiseDct(dctCoef, resSum, offset, size) ==
    [dctCoef |-> [i \in DOMAIN dctCoef |->
                     IF i < size THEN DenoiseLevel(dctCoef[i], offset[i]) ELSE dctCoef[i]],
     resSum  |-> [i \in DOMAIN resSum |->
                     IF i < size THEN resSum[i] + Abs(dctCoef[i]) ELSE resSum[i]]]

---------------------------------------------------------------------------
(* Quant::quant, lines 326-351.  q is the instance: cfg, m_qpParam and     *)
(* m_resiDctCoeff as transformNxN left it; in is the call.                 *)

QuantAdd(sliceI, qbits) == Shl(IF sliceI THEN 171 ELSE 85, qbits - 9)

QBits(per, log2TrSize) ==
    QUANT_SHIFT + per + (MAX_TR_DYNAMIC_RANGE - X265_DEPTH - log2TrSize)

SbhGate(n, bSignHideEnabled) == n >= 2 /\ bSignHideEnabled

quant(q, in, resiDct) ==
    LET scalingListType == (IF in.intra THEN 0 ELSE 3) + in.ttype
        rem        == q.qpParam[in.ttype].rem
        per        == q.qpParam[in.ttype].per
        numCoeff   == 2^(in.log2TrSize * 2)
        quantCoeff == QuantCoefTable(q.scalingList, in.log2TrSize - 2, scalingListType,
                                     rem, numCoeff)
        qbits      == QBits(per, in.log2TrSize)
        add        == QuantAdd(in.sliceI, qbits)
        r          == PrimQuant(resiDct, quantCoeff, qbits, add)
    IN IF SbhGate(r.numSig, in.signHide)
       THEN LET h == signBitHidingHDQ(r.qCoef, resiDct, r.deltaU, r.numSig,
                                      CodingParameters(in.log2TrSize, in.ttype = TEXT_LUMA))
            IN [coeff |-> h.qCoef, numSig |-> h.numSig, preSbh |-> r.qCoef,
                sbhRan |-> TRUE, oob |-> h.oob, maxAbs |-> r.qCoef, sbhLog |-> h.log]
       ELSE [coeff |-> r.qCoef, numSig |-> r.numSig, preSbh |-> r.qCoef,
             sbhRan |-> FALSE, oob |-> FALSE, maxAbs |-> r.qCoef, sbhLog |-> <<>>]

---------------------------------------------------------------------------
(* Coefficient rate functions, lines 65-164.  greaterOneBits and           *)
(* levelAbsBits are the two-entry rows of the bit-estimate tables,         *)
(* indexed 0 and 1.                                                        *)

IEP_RATE == 32768
COEF_REMAIN_BIN_REDUCTION == 3
C1FLAG_NUMBER == 8
g_goRiceRange == <<7, 14, 26, 46, 78>>

\* CLZ32 as used here: index of the highest set bit (x86 BSR), x >= 1
RECURSIVE Bsr(_)
Bsr(x) == IF x <= 1 THEN 0 ELSE 1 + Bsr(x \div 2)

Min(x, y) == IF x < y THEN x ELSE y
Max(x, y) == IF x > y THEN x ELSE y

\* lines 65-118
getICRate(absLevel, diffLevel, greaterOneBits, levelAbsBits, absGoRice, c1c2Idx) ==
    IF absLevel = 0 THEN 0
    ELSE IF diffLevel < 0
    THEN greaterOneBits[IF absLevel = 2 THEN 1 ELSE 0]
         + (IF absLevel = 2 THEN levelAbsBits[0] ELSE 0)
    ELSE
    LET maxVlc    == g_goRiceRange[absGoRice + 1]
        expGolomb == diffLevel > maxVlc
        egs       == IF expGolomb THEN Bsr(diffLevel - maxVlc) * 2 + 1 ELSE 0
        symbol    == IF expGolomb THEN maxVlc + 1 ELSE diffLevel
        prefLen   == Shr(symbol, absGoRice) + 1
        numBins   == Min(prefLen + absGoRice, 8)
    IN Shl(egs, 15) + Shl(numBins, 15)
       + (IF c1c2Idx % 2 = 1 THEN greaterOneBits[1] ELSE 0)
       + (IF c1c2Idx = 3 THEN levelAbsBits[1] ELSE 0)

\* the X265_CHECKs of getICRate (lines 67, 68, 71, 78) and of getICRateCost
\* (lines 123, 128) on the arguments of one call
ICRateChecks(absLevel, diffLevel, absGoRice, c1c2Idx) ==
    /\ c1c2Idx <= 3
    /\ absGoRice <= 4
    /\ IF absLevel = 0 THEN diffLevel < 0 ELSE (diffLevel < 0 => absLevel <= 2)

ICRateCostChecks(absLevel, diffLevel) ==
    /\ absLevel # 0
    /\ diffLevel < 0 => (absLevel = 1 \/ absLevel = 2)

\* the bins of a remainder whose prefix is below COEF_REMAIN_BIN_REDUCTION, line 137
RemainBinsShortNoRice(length, absGoRice) == length + 1
RemainBinsShort(length, absGoRice) == length + 1 + absGoRice

\* lines 121-164
getICRateCost(absLevel, diffLevel, greaterOneBits, levelAbsBits, absGoRice, c1c2Idx) ==
    IF diffLevel < 0
    THEN IEP_RATE + greaterOneBits[IF absLevel = 2 THEN 1 ELSE 0]
         + (IF absLevel = 2 THEN levelAbsBits[0] ELSE 0)
    ELSE
    LET pre == Shr(diffLevel, absGoRice)
        bins == IF pre < COEF_REMAIN_BIN_REDUCTION
                THEN RemainBinsShort(pre, absGoRice)
                ELSE LET symbol == pre - COEF_REMAIN_BIN_REDUCTION
                         length == IF symbol # 0 THEN Bsr(symbol + 1) ELSE 0
                     IN COEF_REMAIN_BIN_REDUCTION + length + absGoRice + 1 + length
    IN IEP_RATE + Shl(bins, 15)
       + (IF c1c2Idx % 2 = 1 THEN greaterOneBits[1] ELSE 0)
       + (IF c1c2Idx = 3 THEN levelAbsBits[1] ELSE 0)

---------------------------------------------------------------------------
(* Context derivation, lines 998-1118.  sigCoeffGroupFlag64 is modelled as *)
(* the set of its set bits.                                                *)

\* lines 998-1010
\* words are the sets of their one bits.  (uint32_t)(flags >> count) for a
\* 64-bit flags: a count of 64 is undefined in C, and wide stands for the word
\* such a shift leaves
SigPos(sigCoeffGroupFlag64, count, wide) ==
    IF count > 63 THEN wide
    ELSE {i - count : i \in {j \in sigCoeffGroupFlag64 : j >= count /\ j - count <= 31}}

\* (int32_t)(cgPos - (trSizeCG - 1)) >> 31: all ones before the last row or column
EdgeMaskOpen(cgPos, trSizeCG) == 0..31
EdgeMask(cgPos, trSizeCG) == Bits(Sar31(cgPos - (trSizeCG - 1)))

calcPatternSigCtx(sigCoeffGroupFlag64, cgPosX, cgPosY, log2TrSizeCG, wide) ==
    IF log2TrSizeCG = 0 THEN 0
    ELSE
    LET trSizeCG == Shl(1, log2TrSizeCG)
        sigPos   == SigPos(sigCoeffGroupFlag64,
                           1 + Shl(cgPosY, log2TrSizeCG) + cgPosX, wide)
        sigRight == EdgeMask(cgPosX, trSizeCG) \cap (sigPos \cap Bits(1))
        sigLower == (EdgeMask(cgPosY, trSizeCG) \cap Lsr(sigPos, trSizeCG - 2)) \cap Bits(2)
    IN Unsigned(sigRight) + Unsigned(sigLower)

ctxIndMap == <<0, 1, 4, 5, 2, 3, 4, 5, 6, 6, 8, 8, 7, 7, 8, 8>>

table_cnt ==
    << << <<2, 1, 1, 0>>, <<1, 1, 0, 0>>, <<1, 0, 0, 0>>, <<0, 0, 0, 0>> >>,
       << <<2, 1, 0, 0>>, <<2, 1, 0, 0>>, <<2, 1, 0, 0>>, <<2, 1, 0, 0>> >>,
       << <<2, 2, 2, 2>>, <<1, 1, 1, 1>>, <<0, 0, 0, 0>>, <<0, 0, 0, 0>> >>,
       << <<2, 2, 2, 2>>, <<2, 2, 2, 2>>, <<2, 2, 2, 2>>, <<2, 2, 2, 2>> >> >>

\* lines 1013-1077
getSigCtxInc(patternSigCtx, log2TrSize, trSize, blkPos, bIsLuma, firstSignificanceMapContext) ==
    IF blkPos = 0 THEN 0
    ELSE IF log2TrSize = 2 THEN ctxIndMap[blkPos + 1]
    ELSE
    LET posY == Shr(blkPos, log2TrSize)
        posX == blkPos % trSize
        posXinSubset == blkPos % 4
        posYinSubset == posY % 4
        cnt    == table_cnt[patternSigCtx + 1][posXinSubset + 1][posYinSubset + 1]
        offset == firstSignificanceMapContext + cnt
    IN IF bIsLuma /\ (posX >= 4 \/ posY >= 4) THEN 3 + offset ELSE offset

\* lines 1105-1118
getSigCoeffGroupCtxInc(sigCoeffGroupFlag64, cgPosX, cgPosY, log2TrSizeCG) ==
    LET trSizeCG == 2^log2TrSizeCG
        sh       == 1 + Shl(cgPosY, log2TrSizeCG) + cgPosX
        sigRight == cgPosX < trSizeCG - 1 /\ sh \in sigCoeffGroupFlag64
        sigLower == cgPosY < trSizeCG - 1 /\ (sh + trSizeCG - 1) \in sigCoeffGroupFlag64
    IN IF sigRight \/ sigLower THEN 1 ELSE 0

\* getGroupIdx (g_groupIdx): the last-position prefix group of a coordinate
getGroupIdx(pos) ==
    IF pos < 4 THEN pos
    ELSE IF pos < 6 THEN 4
    ELSE IF pos < 8 THEN 5
    ELSE IF pos < 12 THEN 6
    ELSE IF pos < 16 THEN 7
    ELSE IF pos < 24 THEN 8
    ELSE 9

\* (int32_t)(2 - pos) >> 31, lines 1090-1091: all ones from position 3 on
LastMaskLate(pos) == Bits(Sar31(4 - pos))
LastMask(pos) == Bits(Sar31(2 - pos))

\* mask & (IEP_RATE * ((ctx - 2) >> 1)), lines 1093-1094, on 32-bit words: ctx - 2
\* wraps around for ctx below 2, and the product by IEP_RATE = 2^15 is a shift
\* left by 15 that drops the bits above bit 31
LastSuffixRate(mask, ctx) == Unsigned(mask \cap Lsl(Lsr(Bits(ctx - 2), 1), 15))

\* lines 1084-1096
getRateLast(est, posx, posy) ==
    LET ctxX == getGroupIdx(posx)
        ctxY == getGroupIdx(posy)
    IN est.lastXBits[ctxX] + est.lastYBits[ctxY]
       + LastSuffixRate(LastMask(posx), ctxX)
       + LastSuffixRate(LastMask(posy), ctxY)

\* the rate of a last position as the last-position search asks for it, lines 849-852
LastRate(est, scanType, posX, posY) ==
    IF scanType = SCAN_VER THEN getRateLast(est, posY, posX)
    ELSE getRateLast(est, posX, posY)

---------------------------------------------------------------------------
(* primitives.nquant: as quant, but records |coef| * quantCoeff in         *)
(* scaledCoeff instead of the remainder.                                   *)

PrimNquant(coef, quantCoeff, qBits, add) ==
    LET qc == [i \in DOMAIN coef |-> QuantSigned(coef[i], quantCoeff[i], qBits, add)]
    IN [qCoef       |-> qc,
        scaledCoeff |-> [i \in DOMAIN coef |-> Abs(coef[i]) * quantCoeff[i]],
        numSig      |-> CountNonzero(qc)]

---------------------------------------------------------------------------
(* Quant::rdoQuant, lines 500-995.                                         *)
(*                                                                         *)
(* Costs are C doubles.  The model runs on inputs for which every double   *)
(* operation is exact and integral: m_lambda2 is a whole number, the       *)
(* errScale entries are errNum / 4^errShift and every scaled coefficient   *)
(* is a multiple of 2^errShift (ExactCosts below), so err^2 * errScale is  *)
(* (err / 2^errShift)^2 * errNum.                                          *)

MAX_DOUBLE == MAX_INT

Dist(sl, err) == LET u == err \div 2^(sl.errShift) IN u * u * sl.errNum

\* SIGN(x, y), line 34
SIGN(x, y) == IF y < 0 THEN -x ELSE x

\* the psy-rdoq bias of one candidate level, lines 629-635
PsyValue(e, blkPos, lvl) ==
    IF e.usePsy /\ blkPos # 0
    THEN LET signCoef        == e.resiDct[blkPos]
             predictedCoef   == e.fencDct[blkPos] - signCoef
             unquantAbsLevel == Shr(lvl * e.unquantScale + e.unquantRound, e.unquantShift)
             reconCoef       == Shl(Abs(unquantAbsLevel + SIGN(predictedCoef, signCoef)),
                                    e.scaleBits)
         IN Shr(e.psyRdoqScale * reconCoef, 8)
    ELSE 0

\* one iteration of the loop of RDO_CODED_LEVEL, lines 624-648
CodedLevelTry(e, c, lvl, err, curCostSig, best) ==
    LET rateCost == getICRateCost(lvl, lvl - c.baseLevel, c.greaterOneBits,
                                  c.levelAbsBits, c.goRiceParam, c.c1c2Idx)
        curCost  == Dist(e.sl, err) + e.lambda2 * (curCostSig + rateCost)
        psyValue == PsyValue(e, c.blkPos, lvl)
    IN IF curCost - psyValue < best.costCoeff
       THEN [level |-> lvl, costCoeff |-> curCost - psyValue,
             costSig |-> e.lambda2 * curCostSig]
       ELSE best

\* RDO_CODED_LEVEL(curCostSig), lines 616-649; init = costCoeff[scanPos], costSig[scanPos]
RdoCodedLevel(e, c, curCostSig, init) ==
    LET err1        == c.levelDouble - Shl(c.maxAbsLevel, e.qbits)
        minAbsLevel == Max(c.maxAbsLevel - 1, 1)
        first       == CodedLevelTry(e, c, c.maxAbsLevel, err1, curCostSig,
                                     [level |-> 0, costCoeff |-> init.costCoeff,
                                      costSig |-> init.costSig])
    IN IF c.maxAbsLevel > minAbsLevel
       THEN CodedLevelTry(e, c, c.maxAbsLevel - 1, err1 + 2^(e.qbits), curCostSig, first)
       ELSE first

\* update of the CABAC estimation state after a level, lines 693-721
NextGoRice(level, baseLevel, goRiceParam) ==
    IF level >= baseLevel /\ goRiceParam < 4 /\ level > Shl(3, goRiceParam)
    THEN goRiceParam + 1 ELSE goRiceParam

\* line 697: c1Idx -= (-(int32_t)level) >> 31
NextC1Idx(c1Idx, level) == c1Idx - Sar31(-level)

\* lines 700-707: the bin model after a level
NextC1NoCap(c1, level) ==
    IF level > 1 THEN 0 ELSE IF c1 > 0 /\ level # 0 THEN c1 + 1 ELSE c1
NextC1(c1, level) ==
    IF level > 1 THEN 0 ELSE IF c1 < 3 /\ c1 > 0 /\ level # 0 THEN c1 + 1 ELSE c1

NextC2(c2, level) == IF level > 1 THEN c2 + Shr31(c2 - 2) ELSE c2

CabacUpdate(s, e, level, baseLevel, scanPos) ==
    LET g1   == NextGoRice(level, baseLevel, s.goRiceParam)
        c1Idx1 == NextC1Idx(s.c1Idx, level)
        c1a  == NextC1(s.c1, level)
        c2a  == NextC2(s.c2, level)
        c2Idx1 == IF level > 1 THEN s.c2Idx + 1 ELSE s.c2Idx
    IN IF scanPos % SCAN_SET_SIZE = 0 /\ scanPos > 0
       THEN [goRiceParam |-> 0, c1Idx |-> 0, c2Idx |-> 0, c2 |-> 0, c1 |-> 1,
             ctxSet |-> (IF scanPos = SCAN_SET_SIZE \/ ~e.bIsLuma THEN 0 ELSE 2)
                        - Sar31(c1a - 1)]
       ELSE [goRiceParam |-> g1, c1Idx |-> c1Idx1, c2Idx |-> c2Idx1, c2 |-> c2a,
             c1 |-> c1a, ctxSet |-> s.ctxSet]

\* c1c2Idx and baseLevel, lines 602-603: baseLevel is {1, 2, 1, 3}[c1c2Idx]
C1c2IdxLate(c1Idx, c2Idx) == Shr31(c1Idx - 9) + (Sar31(-c2Idx) + 1) * 2
C1c2Idx(c1Idx, c2Idx) == Shr31(c1Idx - 8) + (Sar31(-c2Idx) + 1) * 2

BaseLevel(c1c2Idx) == Shr(217, c1c2Idx * 2) % 4

\* the X265_CHECKs of lines 605-607 on the counters of the coefficient group
ScanChecks(c1Idx, c2Idx, c1c2Idx, baseLevel) ==
    /\ (IF c1Idx < C1FLAG_NUMBER THEN 1 ELSE 0) = Shr31(c1Idx - 8)
    /\ (IF c2Idx = 0 THEN 1 ELSE 0) = Sar31(-c2Idx) + 1
    /\ baseLevel = (IF c1Idx < C1FLAG_NUMBER THEN 2 + (IF c2Idx = 0 THEN 1 ELSE 0) ELSE 1)

\* the checks of the calls of getICRateCost (line 626) and getICRate (lines
\* 683-685) that one scan position makes, c its locals and level its decision
RateCallChecks(c, level) ==
    /\ (c.scanPos = c.lastScanPos \/ c.maxAbsLevel # 0) =>
          \A lvl \in Max(c.maxAbsLevel - 1, 1)..c.maxAbsLevel :
             ICRateCostChecks(lvl, lvl - c.baseLevel)
    /\ level > 0 =>
          \A l \in (level - 1)..(level + 1) :
             ICRateChecks(l, l - c.baseLevel, c.goRiceParam, c.c1c2Idx)

\* what the reverse scan did at one coded position: the estimation state it
\* found (before), the level it chose, the state it left (after)
RdoTraceEntry(s, c, level, cab) ==
    [pos |-> c.scanPos, level |-> level, maxAbsLevel |-> c.maxAbsLevel,
     baseLevel |-> c.baseLevel, c1c2Idx |-> c.c1c2Idx,
     before |-> [goRiceParam |-> s.goRiceParam, c1 |-> s.c1, c2 |-> s.c2,
                 ctxSet |-> c.ctxSet0, c1Idx |-> s.c1Idx, c2Idx |-> s.c2Idx],
     after |-> cab,
     checks |-> /\ ScanChecks(s.c1Idx, s.c2Idx, c.c1c2Idx, c.baseLevel)
                /\ RateCallChecks(c, level)]

\* the level decision of one scan position, lines 651-674: [level, costCoeff,
\* costSig].  c holds the locals of the iteration.
RdoLevel(s, e, c) ==
    LET pre == IF c.maxAbsLevel < 3
               THEN [costCoeff |-> c.cost0 + e.lambda2 * c.sigBits[0],
                     costSig   |-> e.lambda2 * c.sigBits[0]]
               ELSE [costCoeff |-> MAX_DOUBLE, costSig |-> s.costSig[c.scanPos]]
    IN IF c.scanPos = c.lastScanPos
       THEN RdoCodedLevel(e, c, 0, [costCoeff |-> MAX_DOUBLE,
                                    costSig |-> s.costSig[c.scanPos]])
       ELSE IF c.maxAbsLevel # 0
            THEN RdoCodedLevel(e, c, c.sigBits[1], pre)
            ELSE [level |-> 0, costCoeff |-> pre.costCoeff, costSig |-> pre.costSig]

\* the arrays and the CABAC state after the decision r, lines 592-727
RdoPosCoded(s, e, c, r) ==
    LET level   == r.level
        rateNow == getICRate(level, level - c.baseLevel, c.greaterOneBits,
                             c.levelAbsBits, s.goRiceParam, c.c1c2Idx)
        rateUp  == IF level > 0
                   THEN getICRate(level + 1, level + 1 - c.baseLevel, c.greaterOneBits,
                                  c.levelAbsBits, s.goRiceParam, c.c1c2Idx) - rateNow
                   ELSE c.greaterOneBits[0]
        rateDown == IF level > 0
                    THEN getICRate(level - 1, level - 1 - c.baseLevel, c.greaterOneBits,
                                   c.levelAbsBits, s.goRiceParam, c.c1c2Idx) - rateNow
                    ELSE 0
        cab == CabacUpdate([s EXCEPT !.ctxSet = c.ctxSet0], e, level, c.baseLevel,
                           c.scanPos)
    IN [s EXCEPT
          !.lastScanPos = c.lastScanPos, !.cgLastScanPos = c.cgLast,
          !.costCoeff0[c.scanPos] = c.cost0,
          !.blockUncodedCost = @ + c.cost0,
          !.costCoeff[c.scanPos] = r.costCoeff,
          !.costSig[c.scanPos] = r.costSig,
          !.sigRateDelta[c.blkPos] =
              IF c.scanPos = c.lastScanPos THEN 0 ELSE c.sigBits[1] - c.sigBits[0],
          !.deltaU[c.blkPos] =
              Shr(c.levelDouble - Shl(level, e.qbits), e.qbits - 8),
          !.dstCoeff[c.blkPos] = level,
          !.baseCost = @ + r.costCoeff,
          !.rateIncUp[c.blkPos] = rateUp,
          !.rateIncDown[c.blkPos] = rateDown,
          !.goRiceParam = cab.goRiceParam, !.c1Idx = cab.c1Idx,
          !.c2Idx = cab.c2Idx, !.c1 = cab.c1, !.c2 = cab.c2,
          !.ctxSet = cab.ctxSet,
          !.trace = Append(@, RdoTraceEntry(s, c, level, cab))]

\* a position before the last significant coefficient, lines 582-590
RdoPosUncoded(s, c) ==
    [s EXCEPT
       !.costCoeff0[c.scanPos] = c.cost0,
       !.blockUncodedCost = @ + c.cost0,
       !.costCoeff[c.scanPos] = 0,
       !.baseCost = @ + c.cost0]

\* the statistics of the coefficient group, lines 729-740; t is the state after
\* lines 592-727
RdoPosStats(t, e, c) ==
    LET scanPosinCG == c.scanPos % SCAN_SET_SIZE
        sigCost1 == t.rdStats.sigCost + t.costSig[c.scanPos]
        sigCost0 == IF scanPosinCG = 0 THEN t.costSig[c.scanPos] ELSE t.rdStats.sigCost0
    IN IF t.dstCoeff[c.blkPos] # 0
       THEN [t EXCEPT
               !.sigCoeffGroupFlag64 = @ \cup {e.cp.scanCG[c.cgScanPos]},
               !.rdStats = [sigCost |-> sigCost1, sigCost0 |-> sigCost0,
                            codedLevelAndDist |-> @.codedLevelAndDist
                                + t.costCoeff[c.scanPos] - t.costSig[c.scanPos],
                            uncodedDist |-> @.uncodedDist + c.cost0,
                            nnzBeforePos0 |-> @.nnzBeforePos0
                                + (IF scanPosinCG # 0 THEN 1 ELSE 0)]]
       ELSE [t EXCEPT !.rdStats.sigCost = sigCost1, !.rdStats.sigCost0 = sigCost0]

\* the locals of the iteration for one scan position, lines 577-615
RdoPosLocals(s, e, patternSigCtx, cgScanPos, scanPos) ==
    LET blkPos      == e.cp.scan[scanPos]
        maxAbsLevel == Abs(s.dstCoeff[blkPos])
        isNewLast   == maxAbsLevel > 0 /\ s.lastScanPos < 0
        ctxSet0     == IF isNewLast
                       THEN (IF scanPos < SCAN_SET_SIZE \/ ~e.bIsLuma THEN 0 ELSE 2)
                       ELSE s.ctxSet
        c1c2Idx     == C1c2Idx(s.c1Idx, s.c2Idx)
        ctxSig == getSigCtxInc(patternSigCtx, e.log2TrSize, 2^(e.log2TrSize), blkPos,
                               e.bIsLuma, e.cp.firstSignificanceMapContext)
    IN [scanPos |-> scanPos, cgScanPos |-> cgScanPos, blkPos |-> blkPos,
        levelDouble |-> e.scaledCoeff[blkPos], maxAbsLevel |-> maxAbsLevel,
        cost0 |-> Dist(e.sl, e.scaledCoeff[blkPos]),
        lastScanPos |-> IF isNewLast THEN scanPos ELSE s.lastScanPos,
        cgLast |-> IF isNewLast THEN cgScanPos ELSE s.cgLastScanPos,
        ctxSet0 |-> ctxSet0, c1c2Idx |-> c1c2Idx, baseLevel |-> BaseLevel(c1c2Idx),
        greaterOneBits |-> e.est.greaterOneBits[4 * ctxSet0 + s.c1],
        levelAbsBits |-> e.est.levelAbsBits[ctxSet0 + s.c2],
        goRiceParam |-> s.goRiceParam,
        sigBits |-> e.est.significantBits[ctxSig]]

RdoPosStep(s, e, c) ==
    IF c.lastScanPos >= 0
    THEN RdoPosStats(RdoPosCoded(s, e, c, RdoLevel(s, e, c)), e, c)
    ELSE RdoPosStats(RdoPosUncoded(s, c), e, c)

\* body of the inner loop for one scan position, lines 577-740
RdoPos(s, e, patternSigCtx, cgScanPos, scanPos) ==
    RdoPosStep(s, e, RdoPosLocals(s, e, patternSigCtx, cgScanPos, scanPos))

\* the inner loop, lines 575-741; s.scanPosinCG is the loop variable
RECURSIVE RdoPosLoop(_, _, _, _)
RdoPosLoop(s, e, patternSigCtx, cgScanPos) ==
    IF s.scanPosinCG < 0 THEN s
    ELSE RdoPosLoop([RdoPos(s, e, patternSigCtx, cgScanPos,
                            Shl(cgScanPos, MLS_CG_SIZE) + s.scanPosinCG)
                       EXCEPT !.scanPosinCG = @ - 1],
                    e, patternSigCtx, cgScanPos)

\* reset of a coefficient group to all-zero, lines 790-800
RdoZeroCGKeepLevels(s, e, cgScanPos) == s
RdoZeroCG(s, e, cgScanPos) ==
    LET inCG(p) == p \div SCAN_SET_SIZE = cgScanPos
        nz(p)   == inCG(p) /\ s.dstCoeff[e.cp.scan[p]] # 0
        blkOf   == {e.cp.scan[p] : p \in {x \in DOMAIN e.cp.scan : inCG(x)}}
    IN [s EXCEPT
          !.costCoeff = [p \in DOMAIN @ |-> IF nz(p) THEN s.costCoeff0[p] ELSE @[p]],
          !.costSig   = [p \in DOMAIN @ |-> IF nz(p) THEN 0 ELSE @[p]],
          !.dstCoeff  = [b \in DOMAIN @ |-> IF b \in blkOf THEN 0 ELSE @[b]]]

\* what the summary of a coefficient group decided: the branch taken, the two
\* costs the all-zero trial compared, the cost it left
RdoCGEntry(cgScanPos, kind, zeroed, costZeroCG, costKeep, baseCost) ==
    [cg |-> cgScanPos, kind |-> kind, zeroed |-> zeroed, costZeroCG |-> costZeroCG,
     costKeep |-> costKeep, baseCost |-> baseCost]

\* summary of one coefficient group, lines 743-807
RdoCGSummary(s, e, cgScanPos) ==
    LET cgBlkPos == e.cp.scanCG[cgScanPos]
        cgPosY   == Shr(cgBlkPos, e.cp.log2TrSizeCG)
        cgPosX   == cgBlkPos - Shl(cgPosY, e.cp.log2TrSizeCG)
        ctxSig   == getSigCoeffGroupCtxInc(s.sigCoeffGroupFlag64, cgPosX, cgPosY,
                                           e.cp.log2TrSizeCG)
        cgBits   == e.est.significantCoeffGroupBits[ctxSig]
        s0       == [s EXCEPT !.costCoeffGroupSig[cgScanPos] = 0]
    IN IF s.cgLastScanPos < 0 THEN s
       ELSE IF cgScanPos = 0
       THEN [s0 EXCEPT !.sigCoeffGroupFlag64 = @ \cup {cgBlkPos},
                       !.cgTrace = Append(@, RdoCGEntry(cgScanPos, "dc", FALSE, 0, 0,
                                                        s.baseCost))]
       ELSE IF cgBlkPos \notin s.sigCoeffGroupFlag64
       THEN [s0 EXCEPT !.baseCost = @ + e.lambda2 * cgBits[0] - s.rdStats.sigCost,
                       !.costCoeffGroupSig[cgScanPos] = e.lambda2 * cgBits[0],
                       !.cgTrace = Append(@, RdoCGEntry(cgScanPos, "empty", FALSE, 0, 0,
                                                        s.baseCost + e.lambda2 * cgBits[0]
                                                           - s.rdStats.sigCost))]
       ELSE IF cgScanPos < s.cgLastScanPos
       THEN LET drop      == s.rdStats.nnzBeforePos0 = 0
                base1     == IF drop THEN s.baseCost - s.rdStats.sigCost0 ELSE s.baseCost
                sigCost1  == IF drop THEN s.rdStats.sigCost - s.rdStats.sigCost0
                             ELSE s.rdStats.sigCost
                base2     == base1 + e.lambda2 * cgBits[1]
                costZeroCG == base1 + e.lambda2 * cgBits[0] + s.rdStats.uncodedDist
                              - s.rdStats.codedLevelAndDist - sigCost1
            IN IF costZeroCG < base2
               THEN RdoZeroCG([s0 EXCEPT
                                 !.sigCoeffGroupFlag64 = @ \ {cgBlkPos},
                                 !.baseCost = costZeroCG,
                                 !.costCoeffGroupSig[cgScanPos] = e.lambda2 * cgBits[0],
                                 !.zeroedCG = @ \cup {cgScanPos},
                                 !.cgTrace = Append(@, RdoCGEntry(cgScanPos, "trial", TRUE,
                                                                  costZeroCG, base2,
                                                                  costZeroCG))],
                              e, cgScanPos)
               ELSE [s0 EXCEPT !.baseCost = base2,
                               !.costCoeffGroupSig[cgScanPos] = e.lambda2 * cgBits[1],
                               !.cgTrace = Append(@, RdoCGEntry(cgScanPos, "trial", FALSE,
                                                                costZeroCG, base2, base2))]
       ELSE [s0 EXCEPT !.cgTrace = Append(@, RdoCGEntry(cgScanPos, "last", FALSE, 0, 0,
                                                        s.baseCost))]

EmptyRdStats ==
    [sigCost |-> 0, sigCost0 |-> 0, codedLevelAndDist |-> 0, uncodedDist |-> 0,
     nnzBeforePos0 |-> 0]

\* the loop over coefficient groups in reverse scan order, lines 565-808;
\* s.cgScanPos is the loop variable
RECURSIVE RdoCGLoop(_, _)
RdoCGLoop(s, e) ==
    IF s.cgScanPos < 0 THEN s
    ELSE LET cgScanPos == s.cgScanPos
             cgBlkPos == e.cp.scanCG[cgScanPos]
             cgPosY   == Shr(cgBlkPos, e.cp.log2TrSizeCG)
             cgPosX   == cgBlkPos - Shl(cgPosY, e.cp.log2TrSizeCG)
             patternSigCtx == calcPatternSigCtx(s.sigCoeffGroupFlag64, cgPosX, cgPosY,
                                                e.cp.log2TrSizeCG, e.wide)
             s1 == RdoPosLoop([s EXCEPT !.rdStats = EmptyRdStats,
                                        !.scanPosinCG = SCAN_SET_SIZE - 1],
                              e, patternSigCtx, cgScanPos)
         IN RdoCGLoop([RdoCGSummary(s1, e, cgScanPos) EXCEPT !.cgScanPos = @ - 1], e)

\* sentinel of the RDO sign-hiding search (line 926); every real cost is below it
MAX_INT64 == MAX_INT

\* cost of coding no coefficient versus the coded-block flag, lines 813-827
RdoCbf(s, e) ==
    LET bits == IF ~e.intra /\ e.bIsLuma /\ e.trIdx = 0
                THEN e.est.blockRootCbpBits[0]
                ELSE e.est.blockCbpBits[e.ctxQtCbf]
    IN [bestCost    |-> s.blockUncodedCost + e.lambda2 * bits[0],
        baseCost    |-> s.baseCost + e.lambda2 * bits[1],
        bestLastIdx |-> 0,
        foundLast   |-> FALSE,
        walked      |-> <<>>,
        read        |-> <<>>]

\* the search ends at a level greater than 1, lines 860-864
LastPosStopNever(level) == FALSE
LastPosStop(level) == level > 1

\* the positions after the last significant coefficient are passed over,
\* lines 843-844
LastPosSkipNone(scanPos, lastScanPos) == FALSE
LastPosSkip(scanPos, lastScanPos) == scanPos > lastScanPos

\* inner loop of the last-position search, lines 840-869; st.read lists the
\* positions whose costSig entry the loop used
RECURSIVE RdoLastPos(_, _, _, _, _)
RdoLastPos(st, s, e, cgScanPos, scanPosinCG) ==
    IF scanPosinCG < 0 \/ st.foundLast THEN st
    ELSE LET scanPos == cgScanPos * SCAN_SET_SIZE + scanPosinCG
             blkPos  == e.cp.scan[scanPos]
             posY    == Shr(blkPos, e.log2TrSize)
             posX    == blkPos - Shl(posY, e.log2TrSize)
             costLast == e.lambda2 * LastRate(e.est, e.cp.scanType, posX, posY)
             totalCost == st.baseCost + costLast - s.costSig[scanPos]
             st1 == IF totalCost < st.bestCost
                    THEN [st EXCEPT !.bestLastIdx = scanPos + 1, !.bestCost = totalCost]
                    ELSE st
             next ==
                 IF LastPosSkip(scanPos, s.lastScanPos) THEN st
                 ELSE IF s.dstCoeff[blkPos] # 0
                 THEN IF LastPosStop(s.dstCoeff[blkPos])
                      THEN [st1 EXCEPT !.foundLast = TRUE,
                                       !.walked = Append(@, scanPos),
                                       !.read = Append(@, scanPos)]
                      ELSE [st1 EXCEPT !.baseCost = @ - s.costCoeff[scanPos]
                                                      + s.costCoeff0[scanPos],
                                       !.walked = Append(@, scanPos),
                                       !.read = Append(@, scanPos)]
                 ELSE [st EXCEPT !.baseCost = @ - s.costSig[scanPos],
                                 !.read = Append(@, scanPos)]
         IN RdoLastPos(next, s, e, cgScanPos, scanPosinCG - 1)

\* outer loop of the last-position search, lines 832-870
RECURSIVE RdoLastCG(_, _, _, _)
RdoLastCG(st, s, e, cgScanPos) ==
    IF cgScanPos < 0 \/ st.foundLast THEN st
    ELSE LET st1 == [st EXCEPT !.baseCost = @ - s.costCoeffGroupSig[cgScanPos]]
         IN IF e.cp.scanCG[cgScanPos] \notin s.sigCoeffGroupFlag64
            THEN RdoLastCG(st1, s, e, cgScanPos - 1)
            ELSE RdoLastCG(RdoLastPos(st1, s, e, cgScanPos, SCAN_SET_SIZE - 1),
                           s, e, cgScanPos - 1)

\* recount, re-apply the sign of the DCT coefficient, clean the tail: lines 872-886
RdoFinalizeNoClean(s, e, bestLastIdx) ==
    LET rank(b) == CHOOSE p \in DOMAIN e.cp.scan : e.cp.scan[p] = b
    IN [dstCoeff |-> [b \in DOMAIN s.dstCoeff |->
                         IF rank(b) < bestLastIdx /\ e.resiDct[b] < 0
                         THEN -s.dstCoeff[b] ELSE s.dstCoeff[b]],
        numSig   |-> Cardinality({p \in 0..(bestLastIdx - 1) :
                                     s.dstCoeff[e.cp.scan[p]] # 0})]
RdoFinalize(s, e, bestLastIdx) ==
    LET rank(b) == CHOOSE p \in DOMAIN e.cp.scan : e.cp.scan[p] = b
        dst == [b \in DOMAIN s.dstCoeff |->
                   IF rank(b) < bestLastIdx
                   THEN (IF e.resiDct[b] < 0 THEN -s.dstCoeff[b] ELSE s.dstCoeff[b])
                   ELSE IF rank(b) <= s.lastScanPos THEN 0
                   ELSE s.dstCoeff[b]]
    IN [dstCoeff |-> dst,
        numSig   |-> Cardinality({p \in 0..(bestLastIdx - 1) :
                                     s.dstCoeff[e.cp.scan[p]] # 0})]

\* one iteration of the candidate loop of the RDO sign hiding, lines 931-973
RdoSbhCandidate(e, st) ==
    LET n      == st.n
        blkPos == e.scan[n + e.subPos]
        q      == e.dstCoeff[blkPos]
        dU     == e.deltaU[blkPos]
        costUp == e.rdFactor * (-dU) + e.rateIncUp[blkPos]
        costDown == e.rdFactor * dU + e.rateIncDown[blkPos]
                    - (IF Abs(q) = 1 THEN IEP_RATE + e.sigRateDelta[blkPos] ELSE 0)
                    - (IF e.lastCG = 1 /\ e.lastNZPosInCG = n /\ Abs(q) = 1
                       THEN 4 * IEP_RATE ELSE 0)
        cur == IF q # 0
               THEN IF costUp < costDown
                    THEN [cost |-> costUp, change |-> 1, kept |-> FALSE]
                    ELSE IF SbhFirstNZKept(n, e.firstNZPosInCG, q)
                         THEN [cost |-> MAX_INT64, change |-> -1, kept |-> TRUE]
                         ELSE [cost |-> costDown, change |-> -1, kept |-> FALSE]
               ELSE IF n < e.firstNZPosInCG
                       /\ (IF e.resiDct[blkPos] >= 0 THEN 0 ELSE 1) # e.signbit
                    THEN [cost |-> MAX_INT64, change |-> 1, kept |-> FALSE]
                    ELSE [cost |-> e.rdFactor * (-Abs(dU)) + IEP_RATE
                                   + e.rateIncUp[blkPos] + e.sigRateDelta[blkPos],
                          change |-> 1, kept |-> FALSE]
        lastCost == IF n = e.lastNZPosInCG THEN cur.cost ELSE st.lastCost
    IN IF cur.cost < st.minCostInc
       THEN [minCostInc |-> cur.cost, minPos |-> blkPos, finalChange |-> cur.change,
             n |-> n - 1, kept |-> st.kept \/ cur.kept, lastCost |-> lastCost]
       ELSE [st EXCEPT !.n = n - 1, !.kept = @ \/ cur.kept, !.lastCost = lastCost]

\* the candidate loop, lines 929-974; st.n is the loop variable
RECURSIVE RdoSbhSearch(_, _)
RdoSbhSearch(e, st) ==
    IF st.n < 0 THEN st ELSE RdoSbhSearch(e, RdoSbhCandidate(e, st))

\* lines 898-990 for one coefficient group; d = [dstCoeff, numSig, lastCG, oob, subSet]
\* and the log of the groups changed so far
RdoSbhSubSet(d, s, e) ==
    LET scan   == e.cp.scan
        subSet == d.subSet
        subPos == Shl(subSet, LOG2_SCAN_SET_SIZE)
        lastNZPosInCG == LastNZPosInCG(d.dstCoeff, scan, subPos)
    IN IF lastNZPosInCG < 0 THEN d
       ELSE
       LET firstNZPosInCG == FirstNZPosInCG(d.dstCoeff, scan, subPos)
           signbit == IF d.dstCoeff[scan[subPos + firstNZPosInCG]] > 0 THEN 0 ELSE 1
           absSum  == SumRange(d.dstCoeff, scan, subPos, firstNZPosInCG, lastNZPosInCG)
       IN IF lastNZPosInCG - firstNZPosInCG >= SBH_THRESHOLD
             /\ SbhParityMismatch(signbit, absSum)
          THEN
          LET env == [dstCoeff |-> d.dstCoeff, resiDct |-> e.resiDct,
                      deltaU |-> s.deltaU, rateIncUp |-> s.rateIncUp,
                      rateIncDown |-> s.rateIncDown, sigRateDelta |-> s.sigRateDelta,
                      rdFactor |-> e.rdFactor, scan |-> scan, subPos |-> subPos,
                      firstNZPosInCG |-> firstNZPosInCG, lastNZPosInCG |-> lastNZPosInCG,
                      lastCG |-> d.lastCG, signbit |-> signbit]
              from == SbhSearchFrom(d.lastCG, lastNZPosInCG)
              st == RdoSbhSearch(env,
                                 [minCostInc |-> MAX_INT64, minPos |-> -1,
                                  finalChange |-> 0, n |-> from, kept |-> FALSE,
                                  lastCost |-> MAX_INT64])
          IN IF st.minPos = -1
             THEN [d EXCEPT !.oob = TRUE, !.lastCG = 0]
             ELSE
             LET level == d.dstCoeff[st.minPos]
                 finalChange == SbhClamp(level, st.finalChange)
             IN [dstCoeff |-> [d.dstCoeff EXCEPT ![st.minPos] =
                                  SbhApply(level, e.resiDct[st.minPos], finalChange)],
                 numSig   |-> SbhNumSig(d.numSig, level, finalChange),
                 lastCG   |-> 0,
                 oob      |-> d.oob,
                 subSet   |-> subSet,
                 log      |-> Append(d.log,
                                     SbhLogEntry(subSet, d.lastCG, from, firstNZPosInCG,
                                                 lastNZPosInCG, signbit, st,
                                                 finalChange))]
          ELSE [d EXCEPT !.lastCG = 0]

\* the loop over coefficient groups, lines 896-991; d.subSet is the loop variable
RECURSIVE RdoSbhLoop(_, _, _)
RdoSbhLoop(d, s, e) ==
    IF d.subSet < 0 THEN d
    ELSE RdoSbhLoop([RdoSbhSubSet(d, s, e) EXCEPT !.subSet = @ - 1], s, e)

\* the sign-hiding gate of rdoQuant, line 889
RdoSbhGateNoFlag(numSig, bSignHideEnabled) == numSig >= 2
RdoSbhGate(numSig, bSignHideEnabled) == bSignHideEnabled /\ numSig >= 2

\* rdFactor, lines 892-893: (int64_t)(invQuant^2 / (m_lambda2 * 16) + 0.5)
RdFactor(rem, per, lambda2) ==
    LET invQuant == Shl(s_invQuantScales[rem + 1], per)
    IN (2 * invQuant * invQuant + 16 * lambda2) \div (32 * lambda2)

\* the decisions of the loops of rdoQuant: s the state the reverse scan ends in,
\* st the result of the last-position search
RdoTrace(s, st) ==
    [levels |-> s.dstCoeff, sigCoeffGroupFlag64 |-> s.sigCoeffGroupFlag64,
     cgLastScanPos |-> s.cgLastScanPos, scan |-> s.trace, groups |-> s.cgTrace,
     walked |-> st.walked, read |-> st.read]

NoRdoTrace ==
    [levels |-> <<>>, sigCoeffGroupFlag64 |-> {}, cgLastScanPos |-> -1, scan |-> <<>>,
     groups |-> <<>>, walked |-> <<>>, read |-> <<>>]

\* what rdoQuant hands back: the block, its count, and the trace of its decisions.
\* d = [dstCoeff, numSig, oob, log]
RdoOutput(nq, path, d, preSbh, sbhRan, bestLastIdx, lastScanPos, zeroedCG, rdo) ==
    [coeff |-> d.dstCoeff, numSig |-> d.numSig, preSbh |-> preSbh, sbhRan |-> sbhRan,
     oob |-> d.oob, maxAbs |-> [i \in DOMAIN nq.qCoef |-> Abs(nq.qCoef[i])],
     path |-> path, bestLastIdx |-> bestLastIdx, lastScanPos |-> lastScanPos,
     zeroedCG |-> zeroedCG, sbhLog |-> d.log, rdo |-> rdo]

\* lines 888-991: sign hiding on the finalized block f
RdoQuantSbh(in, nq, e, s, st, f) ==
    RdoOutput(nq, "rdoq",
              IF RdoSbhGate(f.numSig, in.signHide)
              THEN RdoSbhLoop([dstCoeff |-> f.dstCoeff, numSig |-> f.numSig,
                               lastCG |-> 1, oob |-> FALSE, subSet |-> s.cgLastScanPos,
                               log |-> <<>>],
                              s, e)
              ELSE [dstCoeff |-> f.dstCoeff, numSig |-> f.numSig, oob |-> FALSE,
                    log |-> <<>>],
              f.dstCoeff, RdoSbhGate(f.numSig, in.signHide),
              st.bestLastIdx, s.lastScanPos, s.zeroedCG, RdoTrace(s, st))

\* lines 872-886 on the last position st found
RdoQuantFinalize(in, nq, e, s, st) ==
    RdoQuantSbh(in, nq, e, s, st, RdoFinalize(s, e, st.bestLastIdx))

\* lines 557-991 on the quantised block nq and the state s the loop over the
\* coefficient groups ends in
RdoQuantDecide(in, nq, e, s) ==
    IF nq.numSig = 0
    THEN RdoOutput(nq, "rdoq0",
                   [dstCoeff |-> nq.qCoef, numSig |-> 0, oob |-> FALSE, log |-> <<>>],
                   nq.qCoef, FALSE, 0, -1, {}, NoRdoTrace)
    ELSE IF s.lastScanPos < 0
    THEN RdoOutput(nq, "rdoqNoLast",
                   [dstCoeff |-> s.dstCoeff, numSig |-> 0, oob |-> FALSE, log |-> <<>>],
                   nq.qCoef, FALSE, 0, -1, {}, NoRdoTrace)
    ELSE RdoQuantFinalize(in, nq, e, s, RdoLastCG(RdoCbf(s, e), s, e, s.cgLastScanPos))

\* the locals of rdoQuant before its loops, lines 506-563
RdoEnv(q, in, resiDct, fencDct, nq) ==
    LET transformShift == MAX_TR_DYNAMIC_RANGE - X265_DEPTH - in.log2TrSize
        rem        == q.qpParam[in.ttype].rem
        per        == q.qpParam[in.ttype].per
        bIsLuma    == in.ttype = TEXT_LUMA
        unquantShift == QUANT_IQUANT_SHIFT - QUANT_SHIFT - transformShift
        lambda2    == q.lambda2[in.ttype]
    IN [sl |-> q.scalingList, lambda2 |-> lambda2,
        qbits |-> QUANT_SHIFT + per + transformShift,
        usePsy |-> q.psyRdoqScale # 0 /\ bIsLuma,
        psyRdoqScale |-> q.psyRdoqScale,
        resiDct |-> resiDct, fencDct |-> fencDct,
        unquantShift |-> unquantShift,
        unquantRound |-> 2^unquantShift - 1,
        unquantScale |-> Shl(s_invQuantScales[rem + 1], per),
        scaleBits |-> SCALE_BITS - 2 * transformShift,
        bIsLuma |-> bIsLuma, est |-> q.estBits, log2TrSize |-> in.log2TrSize,
        cp |-> CodingParameters(in.log2TrSize, bIsLuma), scaledCoeff |-> nq.scaledCoeff,
        intra |-> in.intra, trIdx |-> in.trIdx, ctxQtCbf |-> in.ctxQtCbf,
        rdFactor |-> RdFactor(rem, per, lambda2), wide |-> Bits(in.garbage)]

\* the local arrays and counters as the loop over the coefficient groups finds
\* them, lines 537-563.  The arrays start with the indeterminate value garbage.
RdoStart(in, nq, e) ==
    LET numCoeff == 2^(in.log2TrSize * 2)
        cgNum    == 2^(e.cp.log2TrSizeCG * 2)
        junk(n)  == [i \in 0..(n - 1) |-> in.garbage]
    IN [dstCoeff |-> nq.qCoef,
        costCoeff |-> junk(numCoeff), costSig |-> junk(numCoeff),
        costCoeff0 |-> junk(numCoeff), rateIncUp |-> junk(numCoeff),
        rateIncDown |-> junk(numCoeff), sigRateDelta |-> junk(numCoeff),
        deltaU |-> junk(numCoeff), costCoeffGroupSig |-> junk(cgNum),
        sigCoeffGroupFlag64 |-> {}, ctxSet |-> 0, c1 |-> 1, c2 |-> 0,
        baseCost |-> 0, lastScanPos |-> -1, goRiceParam |-> 0,
        c1Idx |-> 0, c2Idx |-> 0, cgLastScanPos |-> -1,
        blockUncodedCost |-> 0, rdStats |-> EmptyRdStats, zeroedCG |-> {},
        trace |-> <<>>, cgTrace |-> <<>>,
        cgScanPos |-> cgNum - 1, scanPosinCG |-> SCAN_SET_SIZE - 1]

RdoQuantLoops(in, nq, e) == RdoQuantDecide(in, nq, e, RdoCGLoop(RdoStart(in, nq, e), e))

RdoQuantCoded(q, in, resiDct, fencDct, nq) ==
    RdoQuantLoops(in, nq, RdoEnv(q, in, resiDct, fencDct, nq))

\* Quant::rdoQuant.  q is the instance (m_qpParam, m_scalingList, m_psyRdoqScale,
\* the lambdas of selectLambda, m_estBitsSbac), in the arguments and the CU/slice
\* fields read, resiDct and fencDct the scratch buffers.
rdoQuant(q, in, resiDct, fencDct) ==
    LET transformShift  == MAX_TR_DYNAMIC_RANGE - X265_DEPTH - in.log2TrSize
        scalingListType == (IF in.intra THEN 0 ELSE 3) + in.ttype
        rem        == q.qpParam[in.ttype].rem
        qbits      == QUANT_SHIFT + q.qpParam[in.ttype].per + transformShift
        numCoeff   == 2^(in.log2TrSize * 2)
        qCoef      == QuantCoefTable(q.scalingList, in.log2TrSize - 2, scalingListType,
                                     rem, numCoeff)
    IN RdoQuantCoded(q, in, resiDct, fencDct,
                     PrimNquant(resiDct, qCoef, qbits, 2^(qbits - 1)))

---------------------------------------------------------------------------
(* Block copies and conversions.                                           *)

ToInt16(x) == ((x + 32768) % 65536) - 32768

\* the trSize x trSize block at the start of a buffer with the given stride
Pack(buf, stride, trSize) ==
    [i \in 0..(trSize * trSize - 1) |-> buf[(i \div trSize) * stride + (i % trSize)]]

\* writes a packed block into a strided buffer, leaving the padding alone
Unpack(buf, blk, stride, trSize) ==
    [i \in DOMAIN buf |->
        IF i % stride < trSize /\ i \div stride < trSize
        THEN blk[(i \div stride) * trSize + (i % stride)] ELSE buf[i]]

\* primitives.cvt16to32_shl
cvt16to32_shl(src, stride, shift, size) ==
    [i \in 0..(size * size - 1) |-> Shl(Pack(src, stride, size)[i], shift)]

\* primitives.cvt32to16_shr: rounding shift, result stored as int16_t
cvt32to16_shr(src, shift, size) ==
    [i \in 0..(size * size - 1) |-> ToInt16(Shr(src[i] + 2^(shift - 1), shift))]

\* a scratch buffer seen through a block of n entries; entries never written hold
\* an indeterminate value
View(buf, n, garbage) ==
    [i \in 0..(n - 1) |-> IF i \in DOMAIN buf THEN buf[i] ELSE garbage]

\* writes the first n entries of a scratch buffer
Store(buf, blk) ==
    [i \in (DOMAIN buf) \cup (DOMAIN blk) |-> IF i \in DOMAIN blk THEN blk[i] ELSE buf[i]]

---------------------------------------------------------------------------
(* Quant::transformNxN, lines 353-425.  The forward transform kernel is    *)
(* not part of quant.cpp: in.dct is what primitives.dct returns for        *)
(* in.residual and in.fencDct what it returns for the source block.        *)

UseDST(log2TrSize, ttype, intra) == log2TrSize = 2 /\ ttype = TEXT_LUMA /\ intra

\* lines 414-418
NrAppliesWithDST(nr, useDST) == nr.bNoiseReduction
NrApplies(nr, useDST) == nr.bNoiseReduction /\ ~useDST

\* lines 366-379
TransquantBypassPacked(in) ==
    LET trSize == 2^(in.log2TrSize)
        blk    == Pack(in.residual, trSize, trSize)
    IN [coeff |-> [i \in DOMAIN blk |-> ToInt16(blk[i])], numSig |-> CountNonzero(blk)]
TransquantBypass(in) ==
    LET trSize == 2^(in.log2TrSize)
        blk    == Pack(in.residual, in.stride, trSize)
    IN [coeff |-> [i \in DOMAIN blk |-> ToInt16(blk[i])], numSig |-> CountNonzero(blk)]

\* lines 382-419: the new contents of the scratch buffers and the NR state
ForwardTransform(q, in, resi, fenc, nr) ==
    LET trSize  == 2^(in.log2TrSize)
        sizeIdx == in.log2TrSize - 2
        shift   == MAX_TR_DYNAMIC_RANGE - X265_DEPTH - in.log2TrSize
        useDST  == UseDST(in.log2TrSize, in.ttype, in.intra)
        fenc1   == IF ~in.useTransformSkip /\ q.psyRdoqScale # 0 /\ in.ttype = TEXT_LUMA
                   THEN Store(fenc, in.fencDct) ELSE fenc
        dn      == denoiseDct(in.dct, nr.residualSum[sizeIdx], nr.offset[sizeIdx],
                              Shl(16, sizeIdx * 2))
    IN IF in.useTransformSkip
       THEN [resi |-> Store(resi, cvt16to32_shl(in.residual, in.stride, shift, trSize)),
             fenc |-> fenc1, nr |-> nr, nrApplied |-> FALSE]
       ELSE IF NrApplies(nr, useDST)
       THEN [resi |-> Store(resi, dn.dctCoef), fenc |-> fenc1,
             nr |-> [nr EXCEPT !.residualSum[sizeIdx] = dn.resSum,
                               !.count[sizeIdx] = @ + 1],
             nrApplied |-> TRUE]
       ELSE [resi |-> Store(resi, in.dct), fenc |-> fenc1, nr |-> nr,
             nrApplied |-> FALSE]

\* line 421
UseRdoq(useRDOQ, curUseRDOQ) == useRDOQ /\ curUseRDOQ

\* the result of the plain quantiser with the trace fields rdoQuant's result has
QuantTraced(p) ==
    [coeff |-> p.coeff, numSig |-> p.numSig, preSbh |-> p.preSbh, sbhRan |-> p.sbhRan,
     oob |-> p.oob, maxAbs |-> p.maxAbs, path |-> "quant", bestLastIdx |-> 0,
     lastScanPos |-> -1, zeroedCG |-> {}, sbhLog |-> p.sbhLog, rdo |-> NoRdoTrace]

\* what the call leaves: t the buffers after the forward transform, dct the
\* coefficients handed to the quantiser, r the quantiser's result
TransformOutput(t, dct, r) ==
    [coeff |-> r.coeff, numSig |-> r.numSig, resi |-> t.resi, fenc |-> t.fenc,
     nr |-> t.nr,
     ghost |-> [path |-> r.path, dct |-> dct, preSbh |-> r.preSbh,
                sbhRan |-> r.sbhRan, oob |-> r.oob, maxAbs |-> r.maxAbs,
                bestLastIdx |-> r.bestLastIdx, lastScanPos |-> r.lastScanPos,
                zeroedCG |-> r.zeroedCG, nrApplied |-> t.nrApplied,
                sbhLog |-> r.sbhLog, rdo |-> r.rdo]]

\* lines 421-424 on the transformed block
Quantise(q, in, t) ==
    LET numCoeff == 2^(in.log2TrSize * 2)
        rd == View(t.resi, numCoeff, in.garbage)
        fd == View(t.fenc, numCoeff, in.garbage)
    IN TransformOutput(t, rd,
                       IF UseRdoq(q.useRDOQ, in.curUseRDOQ)
                       THEN rdoQuant(q, in, rd, fd)
                       ELSE QuantTraced(quant(q, in, rd)))

\* lines 366-379: the block is stored as it is, nothing else is touched
BypassOutput(by, resi, fenc, nr) ==
    [coeff |-> by.coeff, numSig |-> by.numSig, resi |-> resi, fenc |-> fenc, nr |-> nr,
     ghost |-> [path |-> "bypass", dct |-> by.coeff, preSbh |-> by.coeff,
                sbhRan |-> FALSE, oob |-> FALSE, maxAbs |-> by.coeff,
                bestLastIdx |-> 0, lastScanPos |-> -1, zeroedCG |-> {},
                nrApplied |-> FALSE, sbhLog |-> <<>>, rdo |-> NoRdoTrace]]

transformNxN(q, in, resi, fenc, nr) ==
    IF in.bypass
    THEN BypassOutput(TransquantBypass(in), resi, fenc, nr)
    ELSE Quantise(q, in, ForwardTransform(q, in, resi, fenc, nr))

---------------------------------------------------------------------------
(* Kernels of the inverse pipeline reached through `primitives'.           *)

Clip16(x) == Clip3(-32768, 32767, x)

\* primitives.dequant_normal
dequant_normal(quantCoef, num, scale, shift) ==
    [n \in 0..(num - 1) |->
        Clip16(Shr(Clip16(quantCoef[n]) * scale + 2^(shift - 1), shift))]

\* primitives.dequant_scaling
dequant_scaling(quantCoef, deQuantCoef, num, per, shift0) ==
    LET shift == shift0 + 4
    IN [n \in 0..(num - 1) |->
           IF shift > per
           THEN Clip16(Shr(Clip16(quantCoef[n]) * deQuantCoef[n] + 2^(shift - per - 1),
                           shift - per))
           ELSE Clip16(Shl(Clip16(Clip16(quantCoef[n]) * deQuantCoef[n]), per - shift))]

\* first column of the 32-point HEVC transform matrix: 64 * sqrt(2) * cos(m * pi / 64)
g_t32col == <<64, 90, 90, 90, 89, 88, 87, 85, 83, 82, 80, 78, 75, 73, 70, 67,
              64, 61, 57, 54, 50, 46, 43, 38, 36, 31, 25, 22, 18, 13, 9, 4, 0>>

CosCoef(m) ==
    LET m0 == m % 128
        m1 == IF m0 > 64 THEN 128 - m0 ELSE m0
    IN IF m1 > 32 THEN -g_t32col[64 - m1 + 1] ELSE g_t32col[m1 + 1]

\* entry (frequency u, sample k) of the N-point DCT matrix
DctMatrix(N, u, k) == CosCoef((2 * k + 1) * u * (32 \div N))

\* the 4-point DST matrix of HEVC
g_dst4 == <<<<29, 55, 74, 84>>, <<74, 74, 0, -74>>, <<84, -29, -74, 55>>,
            <<55, -84, 74, -29>>>>

InvMatrix(useDST, N, u, k) == IF useDST THEN g_dst4[u + 1][k + 1] ELSE DctMatrix(N, u, k)

RECURSIVE InvDot(_, _, _, _, _, _)
InvDot(useDST, src, N, j, k, u) ==
    IF u < 0 THEN 0
    ELSE InvMatrix(useDST, N, u, k) * src[u * N + j] + InvDot(useDST, src, N, j, k, u - 1)

\* one pass of the separable inverse transform (partialButterflyInverse)
InvPass(useDST, src, N, shift) ==
    LET in == Tabulated(src)
    IN [i \in 0..(N * N - 1) |->
           Clip16(Shr(InvDot(useDST, in, N, i \div N, i % N, N - 1) + 2^(shift - 1), shift))]

\* primitives.idct[]: the packed residual block
idct(useDST, src, N) ==
    LET block == [i \in 0..(N * N - 1) |-> ToInt16(src[i])]
    IN InvPass(useDST, InvPass(useDST, block, N, 7), N, 12 - (X265_DEPTH - 8))

---------------------------------------------------------------------------
(* Quant::invtransformNxN, lines 427-496.  a is the argument record        *)
(* [bypass, residual, stride, coeff, log2TrSize, ttype, intra,             *)
(*  useTransformSkip, numSig]; resi is m_resiDctCoeff.                     *)

\* lines 432-434
InvBypass(a) ==
    LET trSize == 2^(a.log2TrSize)
    IN Unpack(a.residual, [i \in 0..(trSize * trSize - 1) |-> ToInt16(a.coeff[i])],
              a.stride, trSize)

\* lines 439-455
Dequant(q, a) ==
    LET rem == q.qpParam[a.ttype].rem
        per == q.qpParam[a.ttype].per
        transformShift == MAX_TR_DYNAMIC_RANGE - X265_DEPTH - a.log2TrSize
        shift == QUANT_IQUANT_SHIFT - QUANT_SHIFT - transformShift
        numCoeff == 2^(a.log2TrSize * 2)
        scalingListType == (IF a.intra THEN 0 ELSE 3) + a.ttype
    IN IF q.scalingList.m_bEnabled
       THEN dequant_scaling(a.coeff,
                            DequantCoefTable(q.scalingList, a.log2TrSize - 2,
                                             scalingListType, rem, numCoeff),
                            numCoeff, per, shift)
       ELSE dequant_normal(a.coeff, numCoeff, Shl(s_invQuantScales[rem + 1], per), shift)

\* line 481
DcOnly(numSig, coeff0, useDST) == numSig = 1 /\ coeff0 # 0 /\ ~useDST

\* lines 483-488
DcValNoRound(d) == Shr(Shr(d * 64, 7) * 64, 12 - (X265_DEPTH - 8))
DcVal(d) ==
    LET shift_1st == 7
        add_1st   == 2^(shift_1st - 1)
        shift_2nd == 12 - (X265_DEPTH - 8)
        add_2nd   == 2^(shift_2nd - 1)
    IN Shr(Shr(d * 64 + add_1st, shift_1st) * 64 + add_2nd, shift_2nd)

invtransformNxN(q, a, resi) ==
    LET trSize == 2^(a.log2TrSize)
        numCoeff == trSize * trSize
        deq    == Dequant(q, a)
        useDST == UseDST(a.log2TrSize, a.ttype, a.intra)
        transformShift == MAX_TR_DYNAMIC_RANGE - X265_DEPTH - a.log2TrSize
        fill   == [i \in 0..(numCoeff - 1) |-> ToInt16(DcVal(deq[0]))]
    IN IF a.bypass
       THEN [residual |-> InvBypass(a), resi |-> resi, path |-> "bypass"]
       ELSE IF a.useTransformSkip
       THEN [residual |-> Unpack(a.residual,
                                 IF transformShift > 0
                                 THEN cvt32to16_shr(deq, transformShift, trSize)
                                 ELSE [i \in 0..(numCoeff - 1) |->
                                          ToInt16(Shl(ToInt16(deq[i]), -transformShift))],
                                 a.stride, trSize),
             resi |-> Store(resi, deq), path |-> "skip"]
       ELSE IF DcOnly(a.numSig, a.coeff[0], useDST)
       THEN [residual |-> Unpack(a.residual, fill, a.stride, trSize),
             resi |-> Store(resi, deq), path |-> "dc"]
       ELSE [residual |-> Unpack(a.residual, idct(useDST, deq, trSize), a.stride, trSize),
             resi |-> Store(resi, deq), path |-> "idct"]

---------------------------------------------------------------------------
(* Data the quantiser is configured with.                                  *)

g_quantScales == <<26214, 23302, 20560, 18396, 16384, 14564>>

\* ScalingList tables for a list whose every entry is v: the quantiser scale is
\* (g_quantScales[rem] << 4) / v, the dequantiser scale s_invQuantScales[rem] * v
ScalingListOf(enabled, v, errNum, errShift) ==
    [m_bEnabled  |-> enabled,
     quantCoef   |-> [rem \in 0..5 |-> Shl(g_quantScales[rem + 1], 4) \div v],
     dequantCoef |-> [rem \in 0..5 |-> s_invQuantScales[rem + 1] * v],
     errNum      |-> errNum,
     errShift    |-> errShift]

ScalingLists ==
    [flat  |-> ScalingListOf(FALSE, 16, 2, 11),
     fine  |-> ScalingListOf(TRUE, 4, 1, 15)]

\* g_chromaScale: the 4:2:0 chroma QP mapping
g_chromaScale(qp) ==
    IF qp < 30 THEN qp
    ELSE IF qp >= 43 THEN qp - 6
    ELSE <<29, 30, 31, 32, 33, 33, 34, 34, 35, 35, 36, 36, 37>>[qp - 29]

X265_CSP_I420 == 1

\* setQPforQuant(qpy, ttype, chromaQPOffset, chFmt), lines 203-216
ChromaQp(qpy, chromaQPOffset, chFmt) ==
    LET qp == Clip3(-QP_BD_OFFSET, 57, qpy + chromaQPOffset)
    IN IF qp >= 30
       THEN IF chFmt = X265_CSP_I420 THEN g_chromaScale(qp) ELSE Min(qp, 51)
       ELSE qp

\* m_estBitsSbac: the bit estimates the entropy coder publishes.  A table is
\* given by the cost of a 0 and of a 1 of each flag, tilted by the context index.
EstRow(b0, b1, ctx, tilt) == [b \in 0..1 |-> (IF b = 0 THEN b0 ELSE b1) + tilt * (ctx % 3)]

EstBitsOf(p) ==
    [significantBits           |-> [c \in 0..43 |-> EstRow(p.sig[1], p.sig[2], c, p.tilt)],
     greaterOneBits            |-> [c \in 0..23 |-> EstRow(p.one[1], p.one[2], c, p.tilt)],
     levelAbsBits              |-> [c \in 0..5  |-> EstRow(p.two[1], p.two[2], c, p.tilt)],
     significantCoeffGroupBits |-> [c \in 0..1  |-> EstRow(p.cg[1], p.cg[2], c, p.tilt)],
     blockCbpBits              |-> [c \in 0..4  |-> EstRow(p.cbf[1], p.cbf[2], c, 0)],
     blockRootCbpBits          |-> [c \in 0..3  |-> EstRow(p.cbf[1], p.cbf[2], c, 0)],
     lastXBits                 |-> [c \in 0..9  |-> p.last * (c + 1)],
     lastYBits                 |-> [c \in 0..9  |-> p.last * (c + 1)]]

EstBits ==
    [free |-> EstBitsOf([sig |-> <<0, 0>>, one |-> <<0, 0>>, two |-> <<0, 0>>,
                         cg |-> <<0, 0>>, cbf |-> <<0, 0>>, last |-> 0, tilt |-> 0]),
     even |-> EstBitsOf([sig |-> <<8, 40>>, one |-> <<20, 60>>, two |-> <<30, 50>>,
                         cg |-> <<10, 30>>, cbf |-> <<15, 25>>, last |-> 12, tilt |-> 3]),
     dear |-> EstBitsOf([sig |-> <<2, 900>>, one |-> <<300, 700>>, two |-> <<300, 500>>,
                         cg |-> <<5, 2000>>, cbf |-> <<4, 600>>, last |-> 90, tilt |-> 7]),
     skew |-> EstBitsOf([sig |-> <<200000, 100>>, one |-> <<90000, 300>>,
                         two |-> <<70000, 500>>, cg |-> <<60000, 200>>,
                         cbf |-> <<50000, 400>>, last |-> 40, tilt |-> 0])]

---------------------------------------------------------------------------
(* The state machine.  One Quant instance: constructed, initialised,       *)
(* given a QP, then used to transform and reconstruct blocks.              *)

TextTypes == {TEXT_LUMA, TEXT_CHROMA_U, TEXT_CHROMA_V}

NoCall  == [op |-> "none"]
NoGhost == [enc |-> [path |-> "none"], inv |-> [path |-> "none"]]
Empty   == ZeroBlock(0)

\* the instance as the quantisation routines see it
Instance(in) ==
    [useRDOQ |-> cfg.useRDOQ, psyRdoqScale |-> cfg.psyRdoqScale,
     scalingList |-> ScalingLists[cfg.scalingList], qpParam |-> m_qpParam,
     lambda2 |-> in.lambdas, estBits |-> EstBits[in.est]]

\* The RDOQ calls the model explores: those on which the double operations of
\* rdoQuant are exact (see Dist) and the block's uncoded cost stays below
\* MaxBlockCost, so that every cost is a whole number below 2^31.
MaxBlockCost == 1342177280

RECURSIVE SumDist(_, _, _)
SumDist(sl, scaled, nz) ==
    IF nz = {} THEN 0
    ELSE LET i == CHOOSE x \in nz : TRUE
         IN Dist(sl, scaled[i]) + SumDist(sl, scaled, nz \ {i})

ExactCosts(q, in, resi) ==
    LET sl     == q.scalingList
        rem    == q.qpParam[in.ttype].rem
        qbits  == QBits(q.qpParam[in.ttype].per, in.log2TrSize)
        scaled == [i \in DOMAIN resi |-> Abs(resi[i]) * sl.quantCoef[rem]]
        nz     == {i \in DOMAIN resi : resi[i] # 0}
        unit(i) == scaled[i] \div 2^(sl.errShift)
    IN /\ qbits >= sl.errShift
       /\ \A i \in nz : /\ scaled[i] % 2^(sl.errShift) = 0
                         /\ unit(i) <= 32768
                         /\ unit(i) * unit(i) <= MaxBlockCost \div sl.errNum
       /\ SumDist(sl, scaled, nz) <= MaxBlockCost

\* NoiseReduction structures the owner may attach to the instance
NrOff == [bNoiseReduction |-> FALSE,
          count       |-> [s \in 0..3 |-> 0],
          residualSum |-> [s \in 0..3 |-> ZeroBlock(Shl(16, 2 * s))],
          offset      |-> [s \in 0..3 |-> ZeroBlock(Shl(16, 2 * s))]]

Init ==
    /\ pc = "new"
    /\ alloc = [m_resiDctCoeff |-> FALSE, m_fencShortBuf |-> FALSE, ok |-> FALSE]
    /\ cfg = [useRDOQ |-> FALSE, psyRdoqScale |-> 0, scalingList |-> "flat"]
    /\ m_qpParam = [t \in TextTypes |-> [per |-> 0, rem |-> 0]]
    /\ m_nr = NrOff
    /\ m_resiDctCoeff = Empty
    /\ m_fencDctCoeff = Empty
    /\ call = NoCall
    /\ coeff = Empty
    /\ numSigOut = 0
    /\ residual = Empty
    /\ ghost = NoGhost

\* Quant::init, lines 175-185.  psyScale is given in tenths; the two
\* X265_MALLOC calls succeed or fail independently.
InitResultFirstOnly(resiOk, fencOk) == resiOk
InitResult(resiOk, fencOk) == resiOk /\ fencOk

PsyRdoqScale(psyTenths) == (psyTenths * 256) \div 10

init(useRDOQ, psyTenths, scalingList, resiOk, fencOk) ==
    /\ pc = "new"
    /\ cfg' = [useRDOQ |-> useRDOQ, psyRdoqScale |-> PsyRdoqScale(psyTenths),
               scalingList |-> scalingList.id]
    /\ alloc' = [m_resiDctCoeff |-> resiOk, m_fencShortBuf |-> fencOk,
                 ok |-> InitResult(resiOk, fencOk)]
    /\ call' = [op |-> "init", scalingList |-> scalingList]
    /\ pc' = IF InitResult(resiOk, fencOk) THEN "inited" ELSE "failed"
    /\ UNCHANGED <<m_qpParam, m_nr, m_resiDctCoeff, m_fencDctCoeff, coeff, numSigOut,
                   residual, ghost>>

\* Quant::setQPforQuant(TComDataCU*), lines 193-201
setQPforQuant(cu) ==
    /\ pc = "inited"
    /\ m_qpParam' =
         [t \in TextTypes |->
            IF t = TEXT_LUMA THEN SetQpParam(cu.qpy + QP_BD_OFFSET)
            ELSE IF t = TEXT_CHROMA_U
            THEN SetQpParam(ChromaQp(cu.qpy, cu.chromaCbQpOffset, cu.chFmt) + QP_BD_OFFSET)
            ELSE SetQpParam(ChromaQp(cu.qpy, cu.chromaCrQpOffset, cu.chFmt) + QP_BD_OFFSET)]
    /\ call' = [op |-> "setQPforQuant"]
    /\ pc' = "ready"
    /\ UNCHANGED <<alloc, cfg, m_nr, m_resiDctCoeff, m_fencDctCoeff, coeff, numSigOut,
                   residual, ghost>>

\* a call of transformNxN with arguments in
Encode(in) ==
    /\ pc = "ready"
    /\ \E q \in {Instance(in)} :
         /\ (~in.bypass /\ UseRdoq(q.useRDOQ, in.curUseRDOQ))
               => ExactCosts(q, in, View(ForwardTransform(q, in, m_resiDctCoeff,
                                                          m_fencDctCoeff, m_nr).resi,
                                         2^(in.log2TrSize * 2), in.garbage))
         /\ \E r \in {transformNxN(q, in, m_resiDctCoeff, m_fencDctCoeff, m_nr)} :
              /\ call' = in
              /\ coeff' = r.coeff
              /\ numSigOut' = r.numSig
              /\ m_resiDctCoeff' = r.resi
              /\ m_fencDctCoeff' = r.fenc
              /\ m_nr' = r.nr
              /\ ghost' = [enc |-> r.ghost, inv |-> [path |-> "none"]]
              /\ pc' = "encoded"
       /\ UNCHANGED <<alloc, cfg, m_qpParam, residual>>

\* a call of invtransformNxN on the block and numSig transformNxN produced, with
\* the caller's residual buffer resBuf
Decode(resBuf) ==
    LET a == [bypass |-> call.bypass, residual |-> resBuf, stride |-> call.stride,
              coeff |-> coeff, log2TrSize |-> call.log2TrSize, ttype |-> call.ttype,
              intra |-> call.intra, useTransformSkip |-> call.useTransformSkip,
              numSig |-> numSigOut]
    IN /\ pc = "encoded"
       /\ \E r \in {invtransformNxN(Instance(call), a, m_resiDctCoeff)} :
             /\ residual' = r.residual
             /\ m_resiDctCoeff' = r.resi
             /\ ghost' = [ghost EXCEPT !.inv = [path |-> r.path, resBuf |-> resBuf]]
       /\ pc' = "decoded"
       /\ UNCHANGED <<alloc, cfg, m_qpParam, m_nr, m_fencDctCoeff, call, coeff, numSigOut>>

\* the caller moves on to its next block
Return ==
    /\ pc \in {"encoded", "decoded"}
    /\ pc' = "ready"
    /\ call' = NoCall
    /\ coeff' = Empty
    /\ numSigOut' = 0
    /\ residual' = Empty
    /\ ghost' = NoGhost
    /\ UNCHANGED <<alloc, cfg, m_qpParam, m_nr, m_resiDctCoeff, m_fencDctCoeff>>

---------------------------------------------------------------------------
(* Inputs. *)

\* a block of n entries that is zero except for vals[k] at scan position pos[k]
SparseAt(scan, n, pos, vals) ==
    [b \in 0..(n - 1) |->
        IF \E k \in DOMAIN pos : scan[pos[k]] = b
        THEN vals[CHOOSE k \in DOMAIN pos : scan[pos[k]] = b] ELSE 0]

BaseCall(log2TrSize) ==
    [op |-> "transformNxN", bypass |-> FALSE, log2TrSize |-> log2TrSize,
     ttype |-> TEXT_LUMA, intra |-> FALSE, useTransformSkip |-> FALSE,
     curUseRDOQ |-> TRUE, sliceI |-> FALSE, signHide |-> TRUE,
     residual |-> Empty, stride |-> 2^log2TrSize,
     dct |-> ZeroBlock(2^(2 * log2TrSize)), fencDct |-> ZeroBlock(2^(2 * log2TrSize)),
     trIdx |-> 0, ctxQtCbf |-> 0, garbage |-> 0,
     lambdas |-> [t \in TextTypes |-> 1], est |-> "free"]

\* the five ways the encoder configures an instance here; sizeMatches records
\* whether the scaling list handed to init has the size the tables expect
Configs ==
    {[useRDOQ |-> c[1], psyTenths |-> c[2],
      scalingList |-> [id |-> c[3], sizeMatches |-> m]] :
        c \in {<<TRUE, 0, "flat">>, <<TRUE, 10, "flat">>, <<FALSE, 0, "flat">>,
                <<TRUE, 0, "fine">>, <<FALSE, 3, "fine">>},
        m \in BOOLEAN}

QpInputs ==
    {[qpy |-> 4, chromaCbQpOffset |-> -12, chromaCrQpOffset |-> 0, chFmt |-> X265_CSP_I420],
     [qpy |-> 0, chromaCbQpOffset |-> -12, chromaCrQpOffset |-> 5, chFmt |-> X265_CSP_I420],
     [qpy |-> 34, chromaCbQpOffset |-> 0, chromaCrQpOffset |-> 12, chFmt |-> 2]}

\* how a block is coded: the fields of the call other than the block itself
Modes ==
    {[ttype |-> TEXT_LUMA, intra |-> FALSE, sliceI |-> FALSE, signHide |-> TRUE,
      trIdx |-> 0, ctxQtCbf |-> 1, garbage |-> 0, fencBias |-> 0],
     [ttype |-> TEXT_LUMA, intra |-> TRUE, sliceI |-> TRUE, signHide |-> FALSE,
      trIdx |-> 1, ctxQtCbf |-> 0, garbage |-> 5, fencBias |-> 10],
     [ttype |-> TEXT_CHROMA_U, intra |-> FALSE, sliceI |-> FALSE, signHide |-> TRUE,
      trIdx |-> 1, ctxQtCbf |-> 1, garbage |-> -3, fencBias |-> 0]}

\* a transformed block: its DCT given at scan positions pos
Transformed(log2TrSize, pos, vals, m, est) ==
    LET n == 2^(2 * log2TrSize)
        d == SparseAt(CodingParameters(log2TrSize, TRUE).scan, n, pos, vals)
    IN [BaseCall(log2TrSize) EXCEPT
          !.dct = d, !.fencDct = [i \in 0..(n - 1) |-> d[i] + m.fencBias],
          !.ttype = m.ttype, !.intra = m.intra, !.sliceI = m.sliceI,
          !.signHide = m.signHide, !.trIdx = m.trIdx, !.ctxQtCbf = m.ctxQtCbf,
          !.garbage = m.garbage, !.est = est]

Ests == {"free", "even", "dear", "skew"}

\* the samples a caller's buffer holds
Sample(p, i) ==
    CASE p = "zero" -> 0
      [] p = "low"  -> (i % 7) - 3
      [] p = "ramp" -> ((i * 7919) % 65536) - 32768
      [] p = "edge" -> IF i % 3 = 0 THEN 32767 ELSE IF i % 3 = 1 THEN -32768 ELSE 0

\* a buffer of 2^log2TrSize rows of stride samples
Buffer(log2TrSize, stride, p) ==
    [i \in 0..(2^log2TrSize * stride - 1) |-> Sample(p, i)]

\* 4x4 blocks
Inputs4 ==
    {Transformed(2, <<0, 1, 5, 15>>, <<a, b, c, d>>, m, e) :
        a \in {0, -40, 96, -300}, b \in {0, 24, -16, 100},
        c \in {0, -40, 64}, d \in {0, 24, -40}, m \in Modes, e \in Ests}

\* 8x8 blocks: coefficients in the first, the second and the last coefficient group
Inputs8 ==
    {Transformed(3, <<0, 3, 6, 17, 22, 50, 55>>, <<a, z, b, c, a, b, d>>, m, e) :
        a \in {0, 48, -300}, z \in {0, -8}, b \in {0, 32, 140}, c \in {0, -50, 140},
        d \in {0, 16, -140}, m \in Modes, e \in {"free", "dear"}}

\* 16x16 chroma blocks with a coefficient the quantiser saturates
Inputs16 ==
    {Transformed(4, <<0, 2, 7, 16>>, <<a, b, c, d>>, m, e) :
        a \in {16384, -16384, 10240, -10240}, b \in {0, 1}, c \in {1, 5}, d \in {0, 1},
        m \in {x \in Modes : x.ttype = TEXT_CHROMA_U},
        e \in {"free"}}

\* lossless 4x4 blocks in a padded buffer
InputsBypass ==
    {[BaseCall(2) EXCEPT !.bypass = TRUE, !.residual = Buffer(2, 5, p), !.stride = 5,
                         !.ttype = t] :
        p \in {"zero", "low", "edge"}, t \in TextTypes}

\* 4x4 blocks whose first nonzero level is a 1 that was rounded up, behind a
\* coefficient that was rounded down to 0
InputsSbh ==
    {Transformed(2, <<0, 1, 5>>, <<a, b, 40>>, m, "free") :
        a \in {0, -6}, b \in {7, -7}, m \in {x \in Modes : x.signHide}}

EncInputs == Inputs4 \cup Inputs8 \cup Inputs16 \cup InputsBypass \cup InputsSbh

TransformNxN == \E in \in EncInputs : Encode(in)

Next ==
    \/ \E c \in Configs, resiOk \in BOOLEAN, fencOk \in BOOLEAN :
          init(c.useRDOQ, c.psyTenths, c.scalingList, resiOk, fencOk)
    \/ \E cu \in QpInputs : setQPforQuant(cu)
    \/ TransformNxN

Spec == Init /\ [][Next]_vars

---------------------------------------------------------------------------
(* Reconstruction: a block is transformed and then handed, with the numSig  *)
(* transformNxN returned, to invtransformNxN.                               *)

\* NoiseReduction structures with the filter on
NrOn == [bNoiseReduction |-> TRUE,
         count       |-> [s \in 0..3 |-> 0],
         residualSum |-> [s \in 0..3 |-> [i \in 0..(Shl(16, 2 * s) - 1) |-> s]],
         offset      |-> [s \in 0..3 |-> [i \in 0..(Shl(16, 2 * s) - 1) |-> 20 * (i % 3)]]]

\* lossless blocks of every size, in buffers with and without padding
BypassInputs ==
    {[BaseCall(l) EXCEPT !.bypass = TRUE, !.residual = Buffer(l, 2^l + pad, p),
                         !.stride = 2^l + pad, !.ttype = t] :
        l \in 2..5, pad \in {0, 3}, p \in {"zero", "ramp", "edge"},
        t \in {TEXT_LUMA, TEXT_CHROMA_V}}

\* blocks whose only DCT coefficient is the DC
DcInputs ==
    {[Transformed(l, <<0>>, <<a>>, m, "free") EXCEPT !.stride = 2^l + pad] :
        l \in 2..3, a \in {40, -300, 1000, -4000, 9000, 20000, -20000}, pad \in {0, 1},
        m \in Modes}
    \cup {[Transformed(l, <<0>>, <<a>>, m, "free") EXCEPT !.stride = 2^l + 1] :
            l \in 4..5, a \in {-300, 9000}, m \in {x \in Modes : x.ttype = TEXT_LUMA}}

\* blocks with several coefficients, and a transform-skipped block
AcInputs ==
    {Transformed(l, <<0, 1, 9>>, <<a, b, 64>>, m, "free") :
        l \in 2..3, a \in {96, -300}, b \in {0, -40}, m \in Modes}
    \cup {[BaseCall(2) EXCEPT !.useTransformSkip = TRUE, !.residual = Buffer(2, 5, p),
                             !.stride = 5] : p \in {"low", "zero"}}

InvInputs == BypassInputs \cup DcInputs \cup AcInputs

InvConfigs == {c \in Configs : c.scalingList.sizeMatches /\ c.psyTenths = 0
                                  /\ c.useRDOQ = (c.scalingList.id = "fine")}

InitInv ==
    /\ pc = "new"
    /\ alloc = [m_resiDctCoeff |-> FALSE, m_fencShortBuf |-> FALSE, ok |-> FALSE]
    /\ cfg = [useRDOQ |-> FALSE, psyRdoqScale |-> 0, scalingList |-> "flat"]
    /\ m_qpParam = [t \in TextTypes |-> [per |-> 0, rem |-> 0]]
    /\ m_nr \in {NrOff, NrOn}
    /\ m_resiDctCoeff = Empty
    /\ m_fencDctCoeff = Empty
    /\ call = NoCall
    /\ coeff = Empty
    /\ numSigOut = 0
    /\ residual = Empty
    /\ ghost = NoGhost

TransformNxNInv == \E in \in InvInputs : Encode(in)

InvtransformNxN ==
    \E p \in {"zero", "low"} : Decode(Buffer(call.log2TrSize, call.stride, p))

NextInv ==
    \/ \E c \in InvConfigs : init(c.useRDOQ, c.psyTenths, c.scalingList, TRUE, TRUE)
    \/ \E cu \in QpInputs : setQPforQuant(cu)
    \/ TransformNxNInv
    \/ InvtransformNxN

SpecInv == InitInv /\ [][NextInv]_vars

---------------------------------------------------------------------------
(* Noise reduction: blocks are transformed one after the other while the   *)
(* NoiseReduction structure accumulates.                                   *)

\* the number of blocks the model lets the filter see
MaxCalls == 2

NrCalls == m_nr.count[0] + m_nr.count[1] + m_nr.count[2] + m_nr.count[3]

\* blocks of two sizes in every mode, a lossless block and a transform-skipped one
NrInputs ==
    {Transformed(2, <<0, 1, 5>>, <<a, b, -7>>, m, "free") :
        a \in {96, -300}, b \in {0, 24}, m \in Modes}
    \cup {Transformed(3, <<0, 4, 20>>, <<-48, 10, 140>>, m, "free") : m \in Modes}
    \cup {[BaseCall(2) EXCEPT !.bypass = TRUE, !.residual = Buffer(2, 4, "low")],
          [BaseCall(2) EXCEPT !.useTransformSkip = TRUE, !.residual = Buffer(2, 4, "low")]}

TransformNxNNR == NrCalls < MaxCalls /\ \E in \in NrInputs : Encode(in)

NextNR ==
    \/ \E c \in InvConfigs : init(c.useRDOQ, c.psyTenths, c.scalingList, TRUE, TRUE)
    \/ \E cu \in QpInputs : setQPforQuant(cu)
    \/ TransformNxNNR
    \/ Return

SpecNR == InitInv /\ [][NextNR]_vars

---------------------------------------------------------------------------
(* Psy-rdoq: luma blocks are transformed one after the other on an         *)
(* instance with a psy scale, some of them with transform skip.            *)

PsyConfigs == {c \in Configs : c.psyTenths # 0 /\ c.useRDOQ /\ c.scalingList.sizeMatches}

\* inter luma blocks whose source block has the DCT of the residual plus bias
PsyModes ==
    {[ttype |-> TEXT_LUMA, intra |-> FALSE, sliceI |-> FALSE, signHide |-> h,
      trIdx |-> 0, ctxQtCbf |-> 1, garbage |-> 0, fencBias |-> b] :
        h \in BOOLEAN, b \in {0, 400, -3000}}

\* transformed 4x4 blocks, and transform-skipped 4x4 blocks whose source block
\* has a DCT of 50 everywhere
SeqInputs ==
    {Transformed(2, <<0, 1, 5>>, <<a, b, 64>>, m, "free") :
        a \in {96, -300}, b \in {0, -40}, m \in PsyModes}
    \cup {[BaseCall(2) EXCEPT !.useTransformSkip = TRUE, !.residual = Buffer(2, 4, p),
                              !.fencDct = [i \in 0..15 |-> 50], !.signHide = h] :
             p \in {"low"}, h \in BOOLEAN}

TransformNxNSeq == \E in \in SeqInputs : Encode(in)

NextSeq ==
    \/ \E c \in PsyConfigs : init(c.useRDOQ, c.psyTenths, c.scalingList, TRUE, TRUE)
    \/ \E cu \in QpInputs : setQPforQuant(cu)
    \/ TransformNxNSeq
    \/ Return

SpecSeq == Init /\ [][NextSeq]_vars

---------------------------------------------------------------------------
(* The helper functions of rdoQuant called on their own: each action is one *)
(* call, call holding the arguments and ghost the value returned.           *)

\* the largest absLevel handed to the rate functions
MaxRateLevel == 90

\* rows of the bit-estimate tables: entries 0 and 1 of greaterOneBits and of
\* levelAbsBits for one context
BitRows == {[i \in 0..1 |-> r[i + 1]] : r \in {<<0, 0>>, <<20, 60>>, <<90000, 300>>}}

InitPure ==
    /\ pc = "pure"
    /\ alloc = [m_resiDctCoeff |-> FALSE, m_fencShortBuf |-> FALSE, ok |-> FALSE]
    /\ cfg = [useRDOQ |-> FALSE, psyRdoqScale |-> 0, scalingList |-> "flat"]
    /\ m_qpParam = [t \in TextTypes |-> [per |-> 0, rem |-> 0]]
    /\ m_nr = NrOff
    /\ m_resiDctCoeff = Empty
    /\ m_fencDctCoeff = Empty
    /\ call = NoCall
    /\ coeff = Empty
    /\ numSigOut = 0
    /\ residual = Empty
    /\ ghost = NoGhost

Returned(args, result) ==
    /\ pc' = "returned"
    /\ call' = args
    /\ ghost' = [result |-> result]
    /\ UNCHANGED <<alloc, cfg, m_qpParam, m_nr, m_resiDctCoeff, m_fencDctCoeff,
                   coeff, numSigOut, residual>>

\* a call of getICRate; absLevel = 0 comes with diffLevel < 0 (line 71)
GetICRate ==
    /\ pc = "pure"
    /\ \E absLevel \in 0..MaxRateLevel, baseLevel \in 1..3, absGoRice \in 0..4,
       c1c2Idx \in 0..3, greaterOneBits \in BitRows, levelAbsBits \in BitRows :
       Returned([op |-> "getICRate", absLevel |-> absLevel,
                 diffLevel |-> absLevel - baseLevel, greaterOneBits |-> greaterOneBits,
                 levelAbsBits |-> levelAbsBits, absGoRice |-> absGoRice,
                 c1c2Idx |-> c1c2Idx],
                getICRate(absLevel, absLevel - baseLevel, greaterOneBits, levelAbsBits,
                          absGoRice, c1c2Idx))

\* a call of getICRateCost
GetICRateCost ==
    /\ pc = "pure"
    /\ \E absLevel \in 1..MaxRateLevel, baseLevel \in 1..3, absGoRice \in 0..4,
       c1c2Idx \in 0..3, greaterOneBits \in BitRows, levelAbsBits \in BitRows :
       Returned([op |-> "getICRateCost", absLevel |-> absLevel,
                 diffLevel |-> absLevel - baseLevel, greaterOneBits |-> greaterOneBits,
                 levelAbsBits |-> levelAbsBits, absGoRice |-> absGoRice,
                 c1c2Idx |-> c1c2Idx],
                getICRateCost(absLevel, absLevel - baseLevel, greaterOneBits,
                              levelAbsBits, absGoRice, c1c2Idx))

\* the counters of a coefficient group run from 0 to the 16 positions of the group
MaxCtxIdx == 16

\* lines 602-603 and 697 for one scan position: c1c2Idx and baseLevel from the
\* counters, and c1Idx after the level chosen there
ScanCounters ==
    /\ pc = "pure"
    /\ \E c1Idx \in 0..MaxCtxIdx, c2Idx \in 0..MaxCtxIdx, level \in {0, 1, 2, 3, 32767} :
          Returned([op |-> "counters", c1Idx |-> c1Idx, c2Idx |-> c2Idx, level |-> level],
                   [c1c2Idx |-> C1c2Idx(c1Idx, c2Idx),
                    baseLevel |-> BaseLevel(C1c2Idx(c1Idx, c2Idx)),
                    c1Idx |-> NextC1Idx(c1Idx, level)])

\* the words a shift of the bitmap by 64 may leave: zero, the bitmap itself
\* (a count taken modulo 64), all ones
WideShifts(flags) == {{}, {i \in flags : i <= 31}, 0..31}

\* bitmaps for the group at (cgPosX, cgPosY) of a grid of trSizeCG x trSizeCG
\* groups: the bit after the group's own, the bit trSizeCG after it, and every
\* other bit of the 64, each set or clear
BitmapsAt(cgPosX, cgPosY, trSizeCG) ==
    LET own == cgPosY * trSizeCG + cgPosX
    IN {{i \in 0..63 : \/ (i = own + 1 /\ r)
                        \/ (i = own + trSizeCG /\ b)
                        \/ (i \notin {own + 1, own + trSizeCG} /\ o)} :
           r \in BOOLEAN, b \in BOOLEAN, o \in BOOLEAN}

\* a call of calcPatternSigCtx
CalcPatternSigCtx ==
    /\ pc = "pure"
    /\ \E log2TrSizeCG \in 0..3 :
       \E cgPosX \in 0..(2^log2TrSizeCG - 1), cgPosY \in 0..(2^log2TrSizeCG - 1) :
       \E flags \in BitmapsAt(cgPosX, cgPosY, 2^log2TrSizeCG) :
       \E wide \in (IF 1 + Shl(cgPosY, log2TrSizeCG) + cgPosX > 63
                     THEN WideShifts(flags) ELSE {{}}) :
          Returned([op |-> "calcPatternSigCtx", sigCoeffGroupFlag64 |-> flags,
                    cgPosX |-> cgPosX, cgPosY |-> cgPosY, log2TrSizeCG |-> log2TrSizeCG,
                    wide |-> wide],
                   calcPatternSigCtx(flags, cgPosX, cgPosY, log2TrSizeCG, wide))

\* the largest coordinate of a last position (32x32 blocks)
MaxLastPos == 31

\* bit estimates of the last position that differ between the two axes
LastEsts ==
    {[lastXBits |-> [c \in 0..9 |-> a * (c + 1)], lastYBits |-> [c \in 0..9 |-> b + 7 * c]] :
        a \in {0, 90}, b \in {1000}}

\* the rate of the last position at (posX, posY) under a scan type, lines 849-852
\* calling getRateLast
GetRateLast ==
    /\ pc = "pure"
    /\ \E est \in LastEsts, scanType \in SCAN_DIAG..SCAN_VER,
          posX \in 0..MaxLastPos, posY \in 0..MaxLastPos :
          Returned([op |-> "getRateLast", est |-> est, scanType |-> scanType,
                    posX |-> posX, posY |-> posY],
                   LastRate(est, scanType, posX, posY))

NextPure ==
    \/ GetICRate
    \/ GetICRateCost
    \/ ScanCounters
    \/ CalcPatternSigCtx
    \/ GetRateLast

SpecPure == InitPure /\ [][NextPure]_vars

---------------------------------------------------------------------------
(* Properties. *)

Encoded   == pc = "encoded"
Quantised == Encoded /\ ~call.bypass
Rdoq      == Quantised /\ ghost.enc.path \in {"rdoq0", "rdoqNoLast", "rdoq"}
NumCoeff  == 2^(2 * call.log2TrSize)
Positions == 0..(NumCoeff - 1)

\* the DCT coefficients the quantiser read from m_resiDctCoeff
Dct == View(m_resiDctCoeff, NumCoeff, call.garbage)

\* the levels before the sign-hiding pass, and the positions the pass changed
PreSbh == ghost.enc.preSbh
SbhChanged == {i \in Positions : coeff[i] # PreSbh[i]}

Sgn(x) == IF x > 0 THEN 1 ELSE IF x < 0 THEN -1 ELSE 0

\* coefficient groups of the block in scan order
Scan == CodingParameters(call.log2TrSize, call.ttype = TEXT_LUMA).scan
Groups == 0..(NumCoeff \div SCAN_SET_SIZE - 1)
GroupAt(g, n) == Scan[g * SCAN_SET_SIZE + n]
GroupPositions(g) == {GroupAt(g, n) : n \in 0..(SCAN_SET_SIZE - 1)}
GroupNZ(c, g) == {n \in 0..(SCAN_SET_SIZE - 1) : c[GroupAt(g, n)] # 0}
FirstNZ(c, g) == CHOOSE n \in GroupNZ(c, g) : \A m \in GroupNZ(c, g) : n <= m
LastNZ(c, g) == CHOOSE n \in GroupNZ(c, g) : \A m \in GroupNZ(c, g) : m <= n
RECURSIVE AbsSumOver(_, _)
AbsSumOver(c, ps) ==
    IF ps = {} THEN 0
    ELSE LET i == CHOOSE x \in ps : TRUE IN Abs(c[i]) + AbsSumOver(c, ps \ {i})
\* the group is one sign hiding applies to: first and last nonzero at least
\* SBH_THRESHOLD apart
Eligible(c, g) == GroupNZ(c, g) # {} /\ LastNZ(c, g) - FirstNZ(c, g) >= SBH_THRESHOLD
\* the sum of absolute levels is odd exactly when the first nonzero is negative
ParityHidesSign(c, g) ==
    (AbsSumOver(c, GroupPositions(g)) % 2 = 1) <=> (c[GroupAt(g, FirstNZ(c, g))] < 0)

\* C1: the value transformNxN returns is the number of nonzero entries of the
\* coefficient block it produced, on every path (bypass, plain quantisation,
\* RDOQ, with or without a sign-hiding pass).
C1_NumSigIsNonzeroCount ==
    Encoded => numSigOut = CountNonzero(coeff)

\* a sign-hiding pass has turned a zero into a nonzero in one group and a
\* nonzero into a zero in another
C1_Witness ==
    /\ Quantised /\ ghost.enc.sbhRan
    /\ \E i \in SbhChanged : PreSbh[i] = 0
    /\ \E j \in SbhChanged : coeff[j] = 0

\* C2 as stated: every nonzero output coefficient of a non-bypass transformNxN
\* has the sign of the DCT coefficient at its position.
C2_SignOfDct ==
    Quantised => \A i \in Positions : coeff[i] # 0 => Sgn(coeff[i]) = Sgn(Dct[i])

\* C2 amended: a nonzero output coefficient has the sign of its DCT coefficient
\* wherever that DCT coefficient is nonzero; where the DCT coefficient is zero
\* the output is nonzero only if a sign-hiding pass raised it, and it is then +1.
C2_SignOfNonzeroDct ==
    Quantised =>
       \A i \in Positions :
          coeff[i] # 0 =>
             IF Dct[i] # 0 THEN Sgn(coeff[i]) = Sgn(Dct[i])
             ELSE ghost.enc.sbhRan /\ PreSbh[i] = 0 /\ coeff[i] = 1

\* a sign-hiding pass has raised a zero level at a negative DCT coefficient
C2_Witness ==
    /\ Quantised /\ ghost.enc.sbhRan
    /\ \E i \in SbhChanged : PreSbh[i] = 0 /\ Dct[i] < 0 /\ coeff[i] = -1

\* C3: once a sign-hiding pass has run, every group whose first and last
\* nonzero are at least SBH_THRESHOLD apart has an odd sum of absolute levels
\* exactly when its first nonzero is negative; the pass changed at most one
\* coefficient of a group, by one in magnitude, and only in groups that were
\* eligible and whose parity did not match.
C3_ParityAfterSignHiding ==
    (Quantised /\ ghost.enc.sbhRan) =>
       \A g \in Groups :
          /\ Eligible(coeff, g) => ParityHidesSign(coeff, g)
          /\ Cardinality(SbhChanged \cap GroupPositions(g)) <= 1
          /\ \A i \in SbhChanged \cap GroupPositions(g) :
                /\ Abs(Abs(coeff[i]) - Abs(PreSbh[i])) = 1
                /\ Eligible(PreSbh, g)
                /\ ~ParityHidesSign(PreSbh, g)

\* the pass changed two groups and left alone an eligible group whose parity
\* already matched
C3_Witness ==
    /\ Quantised /\ ghost.enc.sbhRan
    /\ \E g, h \in Groups :
          /\ g # h
          /\ SbhChanged \cap GroupPositions(g) # {}
          /\ SbhChanged \cap GroupPositions(h) # {}
          /\ \E k \in Groups \ {g, h} :
                Eligible(PreSbh, k) /\ SbhChanged \cap GroupPositions(k) = {}

\* the quantiser scale and shift of the block, and the two bounds C4 names
QuantCoefNow == ScalingLists[cfg.scalingList].quantCoef[m_qpParam[call.ttype].rem]
QBitsNow == QBits(m_qpParam[call.ttype].per, call.log2TrSize)
CeilLevel(i) == (Abs(Dct[i]) * QuantCoefNow + 2^QBitsNow - 1) \div 2^QBitsNow
MaxAbsLevel(i) == Abs(ghost.enc.maxAbs[i])

\* C4 as stated: no magnitude of the block rdoQuant returns exceeds
\* ceil(|dct| * quantCoef / 2^qbits), in any configuration.
C4_RdoqAtMostCeil ==
    Rdoq => \A i \in Positions : Abs(coeff[i]) <= CeilLevel(i)

\* C4 amended: the levels rdoQuant chooses never exceed the candidate
\* maxAbsLevel (itself at most the ceiling), and they are what it returns when
\* the PPS disables sign hiding; when RDO sign hiding runs the returned
\* magnitude is at most maxAbsLevel + 1.
C4_RdoqAtMostCandidatePlusOne ==
    Rdoq =>
       \A i \in Positions :
          /\ Abs(PreSbh[i]) <= MaxAbsLevel(i)
          /\ MaxAbsLevel(i) <= CeilLevel(i)
          /\ Abs(coeff[i]) <= MaxAbsLevel(i) + 1
          /\ ~call.signHide => Abs(coeff[i]) <= MaxAbsLevel(i)

\* RDO sign hiding has raised a level above its candidate and above the ceiling
C4_Witness ==
    /\ Rdoq /\ ghost.enc.sbhRan
    /\ \E i \in SbhChanged :
          Abs(coeff[i]) = MaxAbsLevel(i) + 1 /\ Abs(coeff[i]) > CeilLevel(i)

\* C5: when transformNxN returns numSig = 0 the coefficient block is all zero.
C5_NoSigMeansZeroBlock ==
    (Encoded /\ numSigOut = 0) => \A i \in Positions : coeff[i] = 0

\* RDOQ found nonzero levels and its last-position search kept none of them
C5_Witness ==
    /\ Rdoq /\ ghost.enc.path = "rdoq"
    /\ ghost.enc.lastScanPos >= 0 /\ ghost.enc.bestLastIdx = 0
    /\ numSigOut = 0

\* C6: after encode every coefficient is in [-32768, 32767], and a coefficient
\* at 32767 or -32768 that a sign-hiding pass selected moved toward zero.
C6_CoeffInInt16Range ==
    Encoded =>
       \A i \in Positions :
          /\ coeff[i] >= -32768 /\ coeff[i] <= 32767
          /\ (i \in SbhChanged /\ PreSbh[i] \in {32767, -32768})
                => Abs(coeff[i]) = Abs(PreSbh[i]) - 1

\* a sign-hiding pass has selected a coefficient the quantiser left at 32767
C6_Witness ==
    /\ Quantised /\ ghost.enc.sbhRan
    /\ \E i \in SbhChanged : PreSbh[i] = 32767 /\ coeff[i] = 32766

\* the block of a strided buffer the call works on, and the rest of the buffer
TrSize == 2^(call.log2TrSize)
BlockOf(buf) == Pack(buf, call.stride, TrSize)
Padding(buf) == {i \in DOMAIN buf : i % call.stride >= TrSize \/ i \div call.stride >= TrSize}
Decoded == pc = "decoded"

\* C7: with transform-quant bypass transformNxN stores the residual block as it
\* is (strided source, packed destination) and returns the count of its nonzero
\* samples; invtransformNxN stores the block back as it is, so the residual
\* block after the two calls is the one before them and the rest of the
\* caller's buffer is untouched; neither call changes the QP parameters, the
\* scratch DCT buffers or the noise-reduction state.
C7_BypassIsCopy ==
    /\ []((pc \in {"encoded", "decoded"} /\ call.bypass) =>
             /\ coeff = BlockOf(call.residual)
             /\ numSigOut = CountNonzero(BlockOf(call.residual))
             /\ Decoded =>
                   /\ DOMAIN residual = DOMAIN ghost.inv.resBuf
                   /\ BlockOf(residual) = BlockOf(call.residual)
                   /\ \A i \in Padding(residual) : residual[i] = ghost.inv.resBuf[i])
    /\ [][(pc' \in {"encoded", "decoded"} /\ call'.bypass)
             => UNCHANGED <<m_qpParam, m_resiDctCoeff, m_fencDctCoeff, m_nr>>]_vars

\* a lossless 32x32 block with nonzero samples, held in a padded buffer, has
\* been copied back over a buffer with other contents
C7_Witness ==
    /\ Decoded /\ call.bypass
    /\ call.log2TrSize = 5 /\ call.stride > TrSize
    /\ numSigOut > 0
    /\ BlockOf(ghost.inv.resBuf) # BlockOf(residual)
    /\ m_nr.bNoiseReduction

\* the dequantised coefficients invtransformNxN left in m_resiDctCoeff
Deq == View(m_resiDctCoeff, NumCoeff, 0)

\* C8: without bypass and transform skip, when numSig = 1, coeff[0] # 0 and the
\* DST is not used, invtransformNxN takes its DC-only path instead of the
\* inverse transform kernel, every sample of the residual block is
\* (((d * 64 + 64) >> 7) * 64 + 2^(shift2 - 1)) >> shift2 for the dequantised DC
\* coefficient d and shift2 = 12 - (bitDepth - 8), and that block is the one the
\* full inverse DCT gives for the dequantised block.
C8_DcOnlyMatchesIdct ==
    (/\ Decoded /\ ~call.bypass /\ ~call.useTransformSkip
     /\ numSigOut = 1 /\ coeff[0] # 0
     /\ ~(call.log2TrSize = 2 /\ call.ttype = TEXT_LUMA /\ call.intra)) =>
        LET shift2 == 12 - (X265_DEPTH - 8)
            dc     == Shr(Shr(Deq[0] * 64 + 64, 7) * 64 + 2^(shift2 - 1), shift2)
        IN /\ ghost.inv.path = "dc"
           /\ \A i \in Positions : BlockOf(residual)[i] = dc
           /\ BlockOf(residual) = idct(FALSE, Deq, TrSize)

\* the DC-only path has filled a block with a value that the two rounding
\* offsets decide
C8_Witness ==
    /\ Decoded /\ ghost.inv.path = "dc"
    /\ BlockOf(residual)[0] # DcValNoRound(Deq[0])
    /\ BlockOf(residual)[0] # 0

\* C9: a call of transformNxN changes the noise-reduction state only when the
\* filter is applied, which is exactly when noise reduction is enabled and the
\* block is neither bypassed, nor transform-skipped, nor a 4x4 luma intra block
\* (DST).  For an applied block of size index s, count[s] grows by one,
\* residualSum[s][i] grows by |dct[i]|, the coefficient handed on is
\* sign(c) * max(|c| - offset[s][i], 0), and the counters and sums of the other
\* sizes and all offsets stay as they were.  No other operation changes the
\* noise-reduction state.
C9_NoiseReductionFrame ==
    [][IF pc = "ready" /\ pc' = "encoded"
       THEN LET s == call'.log2TrSize - 2
                n == 2^(2 * call'.log2TrSize)
                applied ==
                    /\ m_nr.bNoiseReduction
                    /\ ~call'.bypass /\ ~call'.useTransformSkip
                    /\ ~(call'.log2TrSize = 2 /\ call'.ttype = TEXT_LUMA /\ call'.intra)
            IN /\ ghost'.enc.nrApplied = applied
               /\ IF applied
                  THEN /\ m_nr'.bNoiseReduction = m_nr.bNoiseReduction
                       /\ m_nr'.offset = m_nr.offset
                       /\ m_nr'.count = [m_nr.count EXCEPT ![s] = @ + 1]
                       /\ \A t \in (DOMAIN m_nr.residualSum) \ {s} :
                             m_nr'.residualSum[t] = m_nr.residualSum[t]
                       /\ \A i \in 0..(n - 1) :
                             /\ m_nr'.residualSum[s][i]
                                   = m_nr.residualSum[s][i] + Abs(call'.dct[i])
                             /\ m_resiDctCoeff'[i]
                                   = Sgn(call'.dct[i])
                                        * Max(Abs(call'.dct[i]) - m_nr.offset[s][i], 0)
                  ELSE m_nr' = m_nr
       ELSE m_nr' = m_nr]_vars

\* the filter has run on a 4x4 and on an 8x8 block; on the last one it zeroed
\* one coefficient and shrank another
C9_Witness ==
    /\ Encoded /\ ghost.enc.nrApplied
    /\ m_nr.count[0] = 1 /\ m_nr.count[1] = 1
    /\ \E i, j \in Positions :
          /\ call.dct[i] # 0 /\ m_resiDctCoeff[i] = 0
          /\ m_resiDctCoeff[j] # 0 /\ Abs(m_resiDctCoeff[j]) < Abs(call.dct[j])

\* C10 as stated: init fails when a scratch allocation fails or the scaling
\* list does not have the expected size, and succeeds otherwise.
C10_InitReportsEveryError ==
    call.op = "init" =>
       (alloc.ok <=> (alloc.m_resiDctCoeff /\ alloc.m_fencShortBuf
                         /\ call.scalingList.sizeMatches))

\* C10 amended: init fails exactly when the allocation of a scratch buffer
\* fails, whatever scaling list it is given.
C10_InitFailsOnAllocationOnly ==
    call.op = "init" =>
       /\ alloc.ok <=> (alloc.m_resiDctCoeff /\ alloc.m_fencShortBuf)
       /\ pc = (IF alloc.ok THEN "inited" ELSE "failed")

\* init has failed because the second scratch buffer could not be allocated
C10_Witness ==
    /\ call.op = "init" /\ pc = "failed"
    /\ alloc.m_resiDctCoeff /\ ~alloc.m_fencShortBuf

\* the groups a sign-hiding pass changed, as it logged them
SbhLog == ghost.enc.sbhLog
SignBit(x) == IF x > 0 THEN 0 ELSE 1

\* C11: a sign-hiding pass (plain or RDO) never turns the first nonzero of a
\* coefficient group into zero.  The first nonzero of a group is at another
\* position after the pass only when a zero at an earlier scan position was
\* raised to magnitude 1; the sign bit of the DCT coefficient there (0 when it
\* is >= 0) is then the sign bit the group hides, and so is the sign bit of the
\* raised coefficient.
C11_FirstNonzeroKept ==
    (Quantised /\ ghost.enc.sbhRan) =>
       \A g \in Groups :
          GroupNZ(PreSbh, g) # {} =>
             LET f == FirstNZ(PreSbh, g)
                 signbit == SignBit(PreSbh[GroupAt(g, f)])
             IN /\ coeff[GroupAt(g, f)] # 0
                /\ FirstNZ(coeff, g) # f =>
                      LET n == FirstNZ(coeff, g)
                          b == GroupAt(g, n)
                      IN /\ n < f
                         /\ PreSbh[b] = 0 /\ Abs(coeff[b]) = 1
                         /\ (IF Dct[b] >= 0 THEN 0 ELSE 1) = signbit
                         /\ SignBit(coeff[b]) = signbit

\* the pass met a first nonzero of magnitude 1 that it would have lowered, left
\* it alone, and raised a zero before it that has the hidden (negative) sign
C11_Witness ==
    /\ Quantised /\ ghost.enc.sbhRan
    /\ \E k \in DOMAIN SbhLog :
          LET l == SbhLog[k]
              f == GroupAt(l.subSet, l.first)
          IN /\ l.kept
             /\ Abs(PreSbh[f]) = 1 /\ coeff[f] = PreSbh[f]
             /\ FirstNZ(coeff, l.subSet) < l.first
             /\ l.signbit = 1

\* the scan index within group g of block position b
IndexInGroup(g, b) == CHOOSE n \in 0..(SCAN_SET_SIZE - 1) : GroupAt(g, n) = b

\* C12: a sign-hiding pass treats as the last group (lastCG = 1) the first
\* group, in reverse group order, that holds a nonzero level when the pass
\* starts: empty groups above it are skipped without using the flag up.  In that
\* group the candidates end at its last nonzero, so no position after it is
\* changed; in every group below it all 16 positions are candidates.
C12_LastGroupSearchRange ==
    (Quantised /\ ghost.enc.sbhRan) =>
       /\ \A k \in DOMAIN SbhLog :
             LET l == SbhLog[k]
                 g == l.subSet
             IN /\ GroupNZ(PreSbh, g) # {}
                /\ l.last = LastNZ(PreSbh, g)
                /\ (l.lastCG = 1) <=> (\A h \in Groups : h > g => GroupNZ(PreSbh, h) = {})
                /\ l.from = (IF l.lastCG = 1 THEN l.last ELSE SCAN_SET_SIZE - 1)
                /\ IndexInGroup(g, l.minPos) <= l.from
       /\ \A g \in Groups :
             (GroupNZ(PreSbh, g) # {} /\ \A h \in Groups : h > g => GroupNZ(PreSbh, h) = {})
                => \A n \in 0..(SCAN_SET_SIZE - 1) :
                      n > LastNZ(PreSbh, g) => coeff[GroupAt(g, n)] = 0

\* empty groups were skipped before the group treated as last, and in a group
\* below it the pass changed a position after that group's last nonzero
C12_Witness ==
    /\ Quantised /\ ghost.enc.sbhRan
    /\ \E g \in Groups : /\ g + 1 \in Groups
                          /\ GroupNZ(PreSbh, g) # {}
                          /\ \A h \in Groups : h > g => GroupNZ(PreSbh, h) = {}
    /\ \E k \in DOMAIN SbhLog :
          /\ SbhLog[k].lastCG = 0
          /\ IndexInGroup(SbhLog[k].subSet, SbhLog[k].minPos) > SbhLog[k].last

\* the coded scan positions of rdoQuant's reverse scan, in the order visited
RdoScan == ghost.enc.rdo.scan

CabacInRange(st) ==
    /\ st.goRiceParam \in 0..4 /\ st.c1 \in 0..3 /\ st.c2 \in 0..2
    /\ st.ctxSet \in 0..3

RateCostCalled == pc = "returned" /\ call.op = "getICRateCost"
ICRateOfCall ==
    getICRate(call.absLevel, call.diffLevel, call.greaterOneBits, call.levelAbsBits,
              call.absGoRice, call.c1c2Idx)

\* C14 as stated: getICRateCost = IEP_RATE + getICRate for every absLevel >= 1,
\* baseLevel in 1..3, goRice in 0..4 and c1c2Idx in 0..3.
C14_CostIsRatePlusSign ==
    RateCostCalled => ghost.result = IEP_RATE + ICRateOfCall

\* C14 amended: getICRateCost = IEP_RATE + getICRate whenever diffLevel < 0 or
\* the remainder's prefix diffLevel >> goRice is at most
\* COEF_REMAIN_BIN_REDUCTION.
C14_CostIsRatePlusSignShortPrefix ==
    (RateCostCalled /\ (call.diffLevel < 0
                          \/ Shr(call.diffLevel, call.absGoRice) <= COEF_REMAIN_BIN_REDUCTION))
       => ghost.result = IEP_RATE + ICRateOfCall

\* the longest prefix on which the two functions agree, with the largest Rice
\* parameter and both context bits charged
C14_Witness ==
    /\ RateCostCalled
    /\ call.diffLevel >= 0
    /\ Shr(call.diffLevel, call.absGoRice) = COEF_REMAIN_BIN_REDUCTION
    /\ call.absGoRice = 4 /\ call.c1c2Idx = 3
    /\ call.greaterOneBits[1] > 0
    /\ ghost.result = IEP_RATE + ICRateOfCall

\* rdoQuant's locals when its loop over the coefficient groups has ended
RdoLevels   == ghost.enc.rdo.levels
RdoCGFlags  == ghost.enc.rdo.sigCoeffGroupFlag64
RdoCGLast   == ghost.enc.rdo.cgLastScanPos
RdoGroups   == ghost.enc.rdo.groups
ScanCG      == CodingParameters(call.log2TrSize, call.ttype = TEXT_LUMA).scanCG
RdoScanned  == Rdoq /\ RdoCGLast >= 0

\* C15: when the reverse scan of rdoQuant has processed a coefficient group at
\* or before the group of the last significant coefficient, the group's bit in
\* sigCoeffGroupFlag64 is set exactly when the group holds a nonzero level,
\* except that the bit of the DC group is always set.  The all-zero trial is
\* made for the groups strictly between the DC group and the last group whose
\* bit is set, and for no other; when it succeeds (costZeroCG < baseCost) the 16
\* levels of the group are zero, its bit is clear and baseCost is costZeroCG,
\* and when it fails the group is left as it was.
C15_GroupFlagMatchesLevels ==
    RdoScanned =>
       /\ \A g \in Groups :
             g <= RdoCGLast =>
                /\ (ScanCG[g] \in RdoCGFlags) <=> (g = 0 \/ GroupNZ(RdoLevels, g) # {})
                /\ Cardinality({k \in DOMAIN RdoGroups : RdoGroups[k].cg = g}) = 1
       /\ \A k \in DOMAIN RdoGroups :
             LET t == RdoGroups[k]
             IN /\ t.cg \in 0..RdoCGLast
                /\ (t.kind = "dc") <=> (t.cg = 0)
                /\ t.kind = "last" => t.cg = RdoCGLast
                /\ t.kind = "trial" => /\ t.cg # 0 /\ t.cg < RdoCGLast
                                       /\ t.zeroed <=> (t.costZeroCG < t.costKeep)
                                       /\ t.baseCost = (IF t.zeroed THEN t.costZeroCG
                                                        ELSE t.costKeep)
                                       /\ ~t.zeroed => GroupNZ(RdoLevels, t.cg) # {}
                /\ t.kind = "empty" => GroupNZ(RdoLevels, t.cg) = {}
                /\ t.zeroed => /\ t.kind = "trial"
                               /\ GroupNZ(RdoLevels, t.cg) = {}
                               /\ ScanCG[t.cg] \notin RdoCGFlags
                               /\ \E n \in 0..(SCAN_SET_SIZE - 1) :
                                      ghost.enc.maxAbs[GroupAt(t.cg, n)] # 0

\* a group was turned to all-zero by the trial, and the DC group holds no level
\* yet has its bit set
C15_Witness ==
    /\ RdoScanned
    /\ \E k \in DOMAIN RdoGroups : RdoGroups[k].zeroed
    /\ GroupNZ(RdoLevels, 0) = {} /\ ScanCG[0] \in RdoCGFlags

\* the scan positions the last-position search visited as nonzero, in order
RdoWalked  == ghost.enc.rdo.walked
RdoSearched == Rdoq /\ ghost.enc.path = "rdoq"

\* the nonzero levels at or before lastScanPos in groups whose bit is set, and
\* the highest of them that is greater than 1 (-1 when there is none)
WalkNonzero ==
    {p \in 0..ghost.enc.lastScanPos :
        /\ RdoLevels[Scan[p]] # 0
        /\ ScanCG[p \div SCAN_SET_SIZE] \in RdoCGFlags}
WalkStop ==
    LET big == {p \in WalkNonzero : RdoLevels[Scan[p]] > 1}
    IN IF big = {} THEN -1 ELSE CHOOSE p \in big : \A q \in big : q <= p

\* C16: the last-position search of rdoQuant visits the nonzero levels in
\* reverse scan order from lastScanPos, skipping the groups whose significance
\* bit is clear, down to and including the first level greater than 1.
\* bestLastIdx is 0 or one more than a visited position, hence above the
\* position of that first level greater than 1: a level greater than 1 is
\* zeroed only when the whole block is.  After the finalize pass every scan
\* position at or after bestLastIdx holds zero, and position bestLastIdx - 1
\* holds a nonzero level when bestLastIdx > 0.
C16_LastPositionSearch ==
    RdoSearched =>
       LET best == ghost.enc.bestLastIdx
       IN /\ {RdoWalked[k] : k \in DOMAIN RdoWalked} = {p \in WalkNonzero : p >= WalkStop}
          /\ \A k \in DOMAIN RdoWalked : k > 1 => RdoWalked[k] < RdoWalked[k - 1]
          /\ best = 0 \/ (best - 1) \in {p \in WalkNonzero : p >= WalkStop}
          /\ best = 0 \/ best >= WalkStop + 1
          /\ \A p \in 0..(NumCoeff - 1) :
                /\ p >= best => PreSbh[Scan[p]] = 0
                /\ (RdoLevels[Scan[p]] > 1 /\ PreSbh[Scan[p]] = 0) => best = 0
                /\ p < best => Abs(PreSbh[Scan[p]]) = RdoLevels[Scan[p]]
          /\ best > 0 => PreSbh[Scan[best - 1]] # 0

\* the search skipped a group whose bit is clear, visited levels equal to 1
\* before it stopped at a level greater than 1, and cut the block above it
C16_Witness ==
    /\ RdoSearched
    /\ WalkStop >= 0
    /\ Len(RdoWalked) >= 2
    /\ ghost.enc.bestLastIdx > 0
    /\ ghost.enc.bestLastIdx <= ghost.enc.lastScanPos
    /\ \E g \in Groups : /\ g < RdoCGLast /\ ScanCG[g] \notin RdoCGFlags
                          /\ g * SCAN_SET_SIZE > WalkStop

CountersCalled == pc = "returned" /\ call.op = "counters"

\* C17: for c1Idx and c2Idx in 0..16 the branch-free c1c2Idx of line 602 is
\* (c1Idx < 8 ? 1 : 0) + 2 * (c2Idx == 0 ? 1 : 0); baseLevel of line 603 is
\* entry c1c2Idx of {1, 2, 1, 3}, which is (c1Idx < 8) ? 2 + (c2Idx == 0) : 1;
\* c1Idx grows by one for a nonzero level and is unchanged by a zero level.
C17_BranchFreeCounters ==
    CountersCalled =>
       LET lt8 == IF call.c1Idx < C1FLAG_NUMBER THEN 1 ELSE 0
           c2z == IF call.c2Idx = 0 THEN 1 ELSE 0
       IN /\ ghost.result.c1c2Idx = lt8 + 2 * c2z
          /\ ghost.result.baseLevel = <<1, 2, 1, 3>>[ghost.result.c1c2Idx + 1]
          /\ ghost.result.baseLevel = (IF call.c1Idx < C1FLAG_NUMBER THEN 2 + c2z ELSE 1)
          /\ ghost.result.c1Idx = call.c1Idx + (IF call.level # 0 THEN 1 ELSE 0)

\* the first c1Idx at which the greater-than-1 flag is no longer coded, in a
\* group without a level above 1, at a nonzero level
C17_Witness ==
    /\ CountersCalled
    /\ call.c1Idx = C1FLAG_NUMBER /\ call.c2Idx = 0 /\ call.level = 1
    /\ ghost.result.c1c2Idx = 2 /\ ghost.result.baseLevel = 1
    /\ ghost.result.c1Idx = C1FLAG_NUMBER + 1

PatternCalled == pc = "returned" /\ call.op = "calcPatternSigCtx"

\* C18: calcPatternSigCtx returns (1 if the group to the right exists and is
\* significant) + (2 if the group below exists and is significant), for every
\* bitmap, log2TrSizeCG in 0..3 and group position inside the grid; it returns 0
\* for a 1x1 grid and for the bottom-right group, whatever the shift by 64 at
\* position (7, 7) of the 8x8 grid leaves.
C18_PatternSigCtx ==
    PatternCalled =>
       LET trSizeCG == 2^call.log2TrSizeCG
           right == /\ call.cgPosX + 1 < trSizeCG
                    /\ (call.cgPosY * trSizeCG + call.cgPosX + 1) \in call.sigCoeffGroupFlag64
           below == /\ call.cgPosY + 1 < trSizeCG
                    /\ ((call.cgPosY + 1) * trSizeCG + call.cgPosX)
                          \in call.sigCoeffGroupFlag64
       IN /\ ghost.result = (IF right THEN 1 ELSE 0) + (IF below THEN 2 ELSE 0)
          /\ (call.cgPosX = trSizeCG - 1 /\ call.cgPosY = trSizeCG - 1) => ghost.result = 0

\* the bottom-right group of the 8x8 grid, with every bit of the bitmap set, when
\* the shift by 64 leaves a word of ones
C18_Witness ==
    /\ PatternCalled
    /\ call.log2TrSizeCG = 3 /\ call.cgPosX = 7 /\ call.cgPosY = 7
    /\ call.sigCoeffGroupFlag64 = 0..63
    /\ call.wide = 0..31
    /\ ghost.result = 0

RateLastCalled == pc = "returned" /\ call.op = "getRateLast"

\* suffix bins of a coordinate: none for positions 0, 1 and 2
SuffixBins(pos) == IF pos > 2 THEN (getGroupIdx(pos) - 2) \div 2 ELSE 0

\* C19: for posx, posy in 0..31, getRateLast(posx, posy) is
\* lastXBits[g(posx)] + lastYBits[g(posy)] + IEP_RATE * floor((g(posx) - 2) / 2)
\* + IEP_RATE * floor((g(posy) - 2) / 2), the last two terms only for a
\* coordinate above 2, so that the wrapped g - 2 of groups 0 and 1 never reaches
\* the cost; the last-position search calls it with (posY, posX) for the
\* vertical scan and with (posX, posY) otherwise.
C19_RateLast ==
    RateLastCalled =>
       LET posx == IF call.scanType = SCAN_VER THEN call.posY ELSE call.posX
           posy == IF call.scanType = SCAN_VER THEN call.posX ELSE call.posY
       IN ghost.result = call.est.lastXBits[getGroupIdx(posx)]
                         + call.est.lastYBits[getGroupIdx(posy)]
                         + IEP_RATE * SuffixBins(posx) + IEP_RATE * SuffixBins(posy)

\* a vertical scan whose last position has a column in group 1, where g - 2
\* wraps around, and a row with suffix bins
C19_Witness ==
    /\ RateLastCalled
    /\ call.scanType = SCAN_VER
    /\ call.posX = 1 /\ call.posY = 31
    /\ call.est.lastXBits[0] # 0
    /\ ghost.result = call.est.lastXBits[9] + call.est.lastYBits[1] + 3 * IEP_RATE

\* rdoQuant evaluated the psy bias at a position other than the DC
PsyApplied ==
    /\ Rdoq /\ cfg.psyRdoqScale # 0 /\ call.ttype = TEXT_LUMA
    /\ \E k \in DOMAIN RdoScan :
          /\ Scan[RdoScan[k].pos] # 0
          /\ RdoScan[k].pos = ghost.enc.lastScanPos \/ RdoScan[k].maxAbsLevel # 0

\* what the call returns on an instance that has transformed no block yet
FirstCallResult == transformNxN(Instance(call), call, Empty, Empty, NrOff)

\* C20: whenever rdoQuant applies the psy bias, m_fencDctCoeff holds the forward
\* transform of the source block passed to this call of transformNxN; over any
\* sequence of calls on one instance, transform-skipped ones included, the
\* coefficients and numSig returned depend on the call and the configuration
\* only, not on the blocks transformed before.
C20_PsyReadsThisCallsSource ==
    /\ PsyApplied => View(m_fencDctCoeff, NumCoeff, call.garbage) = call.fencDct
    /\ (Encoded /\ ~call.bypass) =>
          /\ coeff = FirstCallResult.coeff
          /\ numSigOut = FirstCallResult.numSig

\* values the local arrays of rdoQuant may hold before they are written
MaxJunk == 100000
\* a value far from the one the arrays held in this call, and of the other sign
OtherJunk == IF call.garbage > 0 THEN -MaxJunk ELSE MaxJunk

\* the call of rdoQuant made again on the same buffers with the local arrays
\* starting from junk value j
RdoQuantOnJunk(j) ==
    rdoQuant(Instance(call), [call EXCEPT !.garbage = j], Dct,
             View(m_fencDctCoeff, NumCoeff, call.garbage))

\* what rdoQuant handed back in this call, decisions included
RdoQuantResult ==
    [coeff |-> coeff, numSig |-> numSigOut, preSbh |-> ghost.enc.preSbh,
     sbhRan |-> ghost.enc.sbhRan, oob |-> ghost.enc.oob, maxAbs |-> ghost.enc.maxAbs,
     path |-> ghost.enc.path, bestLastIdx |-> ghost.enc.bestLastIdx,
     lastScanPos |-> ghost.enc.lastScanPos, zeroedCG |-> ghost.enc.zeroedCG,
     sbhLog |-> ghost.enc.sbhLog, rdo |-> ghost.enc.rdo]

RdoRead == ghost.enc.rdo.read
RdoCoded == {RdoScan[k].pos : k \in DOMAIN RdoScan}

\* C21: no entry of the per-position arrays that the reverse scan of rdoQuant
\* left unwritten influences the result: whatever the arrays held at entry, the
\* levels, numSig and every decision taken on the way are the same.  The scan codes
\* exactly the positions at or before lastScanPos and assigns costSig at each
\* (line 663, or the first pass of RDO_CODED_LEVEL); the sums sigCost and
\* sigCost0 are used only for groups strictly before the group of the last
\* significant coefficient, all of whose positions were coded; the last-position
\* search reads costSig only at or before lastScanPos, in groups at or before
\* cgLastScanPos; RDO sign hiding searches only positions at or before
\* lastScanPos.
C21_UnwrittenEntriesUnused ==
    /\ Rdoq =>
          RdoQuantOnJunk(OtherJunk) = RdoQuantResult
    /\ RdoSearched =>
          /\ RdoCoded = 0..ghost.enc.lastScanPos
          /\ \A k \in DOMAIN RdoScan :
                \/ RdoScan[k].pos # ghost.enc.lastScanPos /\ RdoScan[k].maxAbsLevel < 3
                \/ RdoScan[k].level > 0
          /\ \A k \in DOMAIN RdoGroups :
                RdoGroups[k].kind \in {"empty", "trial"} =>
                    /\ 0 < RdoGroups[k].cg /\ RdoGroups[k].cg < RdoCGLast
                    /\ RdoGroups[k].cg * SCAN_SET_SIZE + SCAN_SET_SIZE - 1
                          <= ghost.enc.lastScanPos
          /\ \A k \in DOMAIN RdoRead :
                /\ RdoRead[k] <= ghost.enc.lastScanPos
                /\ RdoRead[k] \div SCAN_SET_SIZE <= RdoCGLast
          /\ \A k \in DOMAIN SbhLog :
                /\ SbhLog[k].subSet <= RdoCGLast
                /\ SbhLog[k].subSet * SCAN_SET_SIZE + SbhLog[k].from
                      <= ghost.enc.lastScanPos

\* a block of several groups whose last significant coefficient is not the last
\* position of its group, scanned over arrays of nonzero junk, with an all-zero
\* trial in a group below, a last-position search that read costSig at a zero
\* level, and a sign-hiding change
C21_Witness ==
    /\ RdoSearched /\ call.garbage # 0
    /\ ghost.enc.lastScanPos % SCAN_SET_SIZE # SCAN_SET_SIZE - 1
    /\ ghost.enc.lastScanPos + 1 < NumCoeff
    /\ \E k \in DOMAIN RdoGroups : RdoGroups[k].kind = "trial"
    /\ \E k \in DOMAIN RdoRead : RdoLevels[Scan[RdoRead[k]]] = 0
    /\ SbhLog # <<>>

\* the group needs a change: sign hiding applies and the parity does not yet
\* tell the sign of the first nonzero
NeedsTune(c, g) == Eligible(c, g) /\ ~ParityHidesSign(c, g)

\* the cost a candidate search starts from (lines 254 and 926)
SbhSentinel == IF Rdoq THEN MAX_INT64 ELSE MAX_INT

\* C22: whenever a sign-hiding pass (plain or RDO) finds a coefficient group
\* whose first and last nonzero are at least SBH_THRESHOLD apart and whose
\* parity does not match, its candidate search ends with minPos at a block
\* position of that group, inside the range searched, and never at -1: the
\* group's last nonzero coefficient is not its first nonzero, its cost is below
\* the starting cost, and the cost of the chosen candidate is at most that.
C22_SearchSelectsPosition ==
    (Quantised /\ ghost.enc.sbhRan) =>
        /\ ~ghost.enc.oob
        /\ \A g \in Groups :
              NeedsTune(PreSbh, g) =>
                 \E k \in DOMAIN SbhLog :
                    /\ SbhLog[k].subSet = g
                    /\ SbhLog[k].minPos \in GroupPositions(g)
                    /\ IndexInGroup(g, SbhLog[k].minPos) <= SbhLog[k].from
                    /\ SbhLog[k].last = LastNZ(PreSbh, g)
                    /\ SbhLog[k].first = FirstNZ(PreSbh, g)
                    /\ SbhLog[k].last # SbhLog[k].first
                    /\ SbhLog[k].last <= SbhLog[k].from
                    /\ SbhLog[k].lastCost < SbhSentinel
                    /\ SbhLog[k].minCostInc <= SbhLog[k].lastCost
        /\ \A k \in DOMAIN SbhLog : NeedsTune(PreSbh, SbhLog[k].subSet)

\* a search in which the first nonzero of the group was excluded by the rule of
\* lines 268 / 949 while the last nonzero, also of magnitude 1, was a candidate
C22_Witness ==
    /\ Quantised /\ ghost.enc.sbhRan
    /\ \E k \in DOMAIN SbhLog :
          /\ SbhLog[k].kept
          /\ Abs(PreSbh[GroupAt(SbhLog[k].subSet, SbhLog[k].last)]) = 1
          /\ SbhLog[k].minPos \in GroupPositions(SbhLog[k].subSet)

=============================================================================
